---- MODULE Spec2Model ----
(***************************************************************************)
(* Eye animation of the three-eyed skull: the per-eye blink and motion     *)
(* state machines (eye_controller.py, class Eye) and the controller that   *)
(* schedules synchronized blinks and dispatches the motion update by mode  *)
(* (class EyeController); the face tracker (face_tracker.py), the main     *)
(* loop that switches to rest mode on inactivity (main.py, class           *)
(* SkullController) and the audio playback thread (audio_manager.py).      *)
(*                                                                         *)
(* Times are integer microseconds.  Python floats (blink_factor, eye       *)
(* positions, targets) are modelled as exact rationals <<n, d>> in lowest  *)
(* terms with d > 0.                                                       *)
(***************************************************************************)
EXTENDS Integers, Sequences, FiniteSets, TLC

VARIABLES
    now,              \* clock value read by the last call (current_time_us)
    mode,             \* EyeController.mode
    eyes,             \* EyeController.eyes: name -> Eye
    last_blink_time,  \* EyeController.last_blink_time
    next_blink_time,  \* EyeController.next_blink_time
    calls,            \* Eye methods invoked by the last EyeController.update, in order
    ticks,            \* number of EyeController.update calls made so far
    eye,              \* a stand-alone Eye object driven directly through its methods
    op,               \* the last method called on the stand-alone Eye, with its arguments
                      \* (in SpecMode: the last set_mode call, with its argument and result;
                      \* in SpecFace: the last detect_faces call, with its frame and result;
                      \* in SpecSkull and SpecWake: the last SkullController.update, with
                      \* the clock advance, the capture and the sounds it asked for;
                      \* in SpecAudio: the last AudioManager method the caller called)
    tracker,          \* a FaceTracker object (face_tracker.py)
    skull,            \* the SkullController object (main.py)
    leds,             \* the LEDController object (led_controller.py)
    audio             \* the AudioManager object (audio_manager.py), with the
                      \* positions of its playback thread and of its caller

vars == <<now, mode, eyes, last_blink_time, next_blink_time, calls, ticks, eye, op, tracker,
          skull, leds, audio>>

sysVars == <<skull, leds, audio>>

ctlVars == <<mode, eyes, last_blink_time, next_blink_time, calls, ticks>>

----------------------------------------------------------------------------
(* config.py *)

DISPLAY_SIZE == 240
SACCADE_MIN_DURATION == 83000
SACCADE_MAX_DURATION == 166000
MICROSACCADE_MIN_DURATION == 7000
MICROSACCADE_MAX_DURATION == 25000
GAZE_MAX == 3000000
BLINK_MIN_DURATION == 36000
BLINK_MAX_DURATION == 72000
BLINK_INTERVAL_MIN == 4000000
CAMERA_WIDTH == 640
CAMERA_HEIGHT == 480

DOTSTAR_BRIGHTNESS == <<1, 2>>
DEFAULT_LED_PATTERN == "pulse"

SOUND_EFFECTS ==
    [ ambient |-> <<"ambient_01.wav", "ambient_02.wav">>,
      detection |-> <<"whisper_01.wav", "gasp_01.wav">>,
      scare |-> <<"scream_01.wav", "laugh_01.wav">> ]

\* in microseconds (600 and 1.0 seconds)
INACTIVITY_TIMEOUT == 600 * 1000000
LAST_ACTIVITY_CHECK_INTERVAL == 1000000

EYE_MODES == [TRACKING |-> "tracking", WANDERING |-> "wandering", REST |-> "rest"]

EyeModeValues == {EYE_MODES.TRACKING, EYE_MODES.WANDERING, EYE_MODES.REST}

DEFAULT_MODE == EYE_MODES.TRACKING

(* class EyeState *)
NOBLINK == 0
ENBLINK == 1
DEBLINK == 2

----------------------------------------------------------------------------
(* Bounds of the model and the inputs that are enumerated. *)

\* Clock value at construction (time.time() * 1000000 in the constructors).
ConstructTime == 1000000

\* EyeController.update is called at most MaxTicks times.
MaxTicks == 4

\* Clock advance between two EyeController.update calls.
TickSteps == {25000, 50000, 4200000}

\* The stand-alone Eye is called with clock values up to
\* ConstructTime + MaxEyeElapsed.
MaxEyeElapsed == 250000

\* Clock advance between two direct calls on the stand-alone Eye.
EyeSteps == {0, 12500, 25000, 50000}

\* duration argument of a direct Eye.start_blink call
EyeBlinkDurations == {BLINK_MIN_DURATION, 50000, BLINK_MAX_DURATION}

\* random.randint(BLINK_MIN_DURATION, BLINK_MAX_DURATION)
BlinkDurations == {BLINK_MIN_DURATION, BLINK_MAX_DURATION}

\* random.randint(BLINK_INTERVAL_MIN, BLINK_INTERVAL_MIN * 2)
BlinkIntervals == {BLINK_INTERVAL_MIN, BLINK_INTERVAL_MIN * 2}

\* face_position passed to EyeController.update: None, or a pair of rationals
\* in [-1, 1].
NoTarget == <<>>

Targets == {NoTarget, <<(<<1, 2>>), (<<-1, 2>>)>>}

\* Values passed to EyeController.set_mode; "party" is not a mode.
ModeArgs == EyeModeValues \cup {"party"}

----------------------------------------------------------------------------
(* Exact rational arithmetic standing for Python float arithmetic. *)

\* The operators below take each argument through a bound variable, so that
\* an argument is evaluated once however often the body uses it.

Abs(x) == IF x < 0 THEN -x ELSE x

RECURSIVE GCD(_, _)
GCD(a, b) ==
    CHOOSE g \in {IF y = 0 THEN x ELSE GCD(y, x % y) : x \in {a}, y \in {b}} : TRUE

\* n / d in lowest terms, d > 0
Frac(n, d) ==
    CHOOSE f \in {<<p[1] \div p[3], p[2] \div p[3]>> :
                    p \in {<<n, d, GCD(Abs(n), d)>>}} : TRUE

Zero == <<0, 1>>
One == <<1, 1>>
FInt(k) == <<k, 1>>

FAdd(a, b) ==
    CHOOSE f \in {Frac(x[1] * y[2] + y[1] * x[2], x[2] * y[2]) :
                    x \in {a}, y \in {b}} : TRUE
FSub(a, b) ==
    CHOOSE f \in {Frac(x[1] * y[2] - y[1] * x[2], x[2] * y[2]) :
                    x \in {a}, y \in {b}} : TRUE
FNeg(a) == CHOOSE f \in {<<-x[1], x[2]>> : x \in {a}} : TRUE
FMul(a, b) ==
    CHOOSE f \in {<<p[1] * q[1], p[2] * q[2]>> :
                    p \in {Frac(x[1], y[2]) : x \in {a}, y \in {b}},
                    q \in {Frac(y[1], x[2]) : x \in {a}, y \in {b}}} : TRUE
\* a / b, b not zero
FDiv(a, b) ==
    CHOOSE f \in {IF y[1] > 0 THEN Frac(x[1] * y[2], x[2] * y[1])
                  ELSE Frac(-(x[1] * y[2]), -(x[2] * y[1])) :
                    x \in {a}, y \in {b}} : TRUE
FLe(a, b) == a[1] * b[2] <= b[1] * a[2]
FLt(a, b) == a[1] * b[2] < b[1] * a[2]

\* floor of the square root of a natural number
RECURSIVE SqrtSearch(_, _, _)
SqrtSearch(n, lo, hi) ==
    CHOOSE r \in {IF l >= h THEN l
                  ELSE IF mid * mid <= k THEN SqrtSearch(k, mid, h)
                  ELSE SqrtSearch(k, l, mid - 1) :
                    k \in {n}, l \in {lo}, h \in {hi},
                    mid \in {(lo + hi + 1) \div 2}} : TRUE

ISqrt(n) == SqrtSearch(n, 0, IF n < 46340 THEN n ELSE 46340)

\* The rationals whose square root is rational; math.sqrt is exact on them.
HasRoot(a) ==
    \E x \in {a} :
       /\ x[1] >= 0
       /\ \E r \in {ISqrt(x[1])} : r * r = x[1]
       /\ \E r \in {ISqrt(x[2])} : r * r = x[2]

FSqrt(a) == CHOOSE f \in {<<ISqrt(x[1]), ISqrt(x[2])>> : x \in {a}} : TRUE

----------------------------------------------------------------------------
(* Random draws, enumerated. *)

\* random.uniform(lo, hi) sampled at the points fs of [0, 1]
Uniform(lo, hi, fs) ==
    {FAdd(l, FMul(FSub(h, l), f)) : f \in fs, l \in {lo}, h \in {hi}}

\* The outcomes of the random module that are enumerated for one Eye:
\*   x, y      points of [0, 1] at which random.uniform is sampled for the x
\*             coordinate (0 -> -r, 4/5 -> 3r/5) and the y coordinate (-h, h)
\*   hold      random.randint(35000, limit)
\*   gaze      whether random.randint(self.move_duration, GAZE_MAX) returns its
\*             lower end, its upper end
\*   saccade   random.randint(SACCADE_MIN_DURATION, SACCADE_MAX_DURATION)
\*   micro     random.randint(MICROSACCADE_MIN_DURATION, MICROSACCADE_MAX_DURATION)
EyeRandom ==
    [ x |-> {<<0, 1>>, <<4, 5>>}, y |-> {<<0, 1>>, <<1, 1>>},
      hold |-> {35000, 1000000}, gaze |-> {"lo", "hi"},
      saccade |-> {100000, 150000},
      micro |-> {MICROSACCADE_MIN_DURATION, MICROSACCADE_MAX_DURATION} ]

\* The outcomes enumerated for the controller: those of each of its three
\* eyes, and
\*   blink     random.randint(BLINK_MIN_DURATION, BLINK_MAX_DURATION)
\*   interval  random.randint(BLINK_INTERVAL_MIN, BLINK_INTERVAL_MIN * 2)
CtlRandom ==
    [ x |-> {<<4, 5>>}, y |-> {<<1, 1>>},
      hold |-> {1000000}, gaze |-> {"hi"},
      saccade |-> {100000},
      micro |-> {MICROSACCADE_MAX_DURATION},
      blink |-> BlinkDurations, interval |-> BlinkIntervals ]

\* random.randint(35000, limit)
HoldDraws(rnd, limit) == {h \in rnd.hold : 35000 <= h /\ h <= limit}

\* random.randint(lo, GAZE_MAX)
IntervalDraws(rnd, lo) ==
    {IF g = "lo" THEN lo ELSE GAZE_MAX : g \in rnd.gaze}

\* random.randint(SACCADE_MIN_DURATION, SACCADE_MAX_DURATION)
SaccadeDurations(rnd) ==
    {d \in rnd.saccade : SACCADE_MIN_DURATION <= d /\ d <= SACCADE_MAX_DURATION}

\* random.randint(MICROSACCADE_MIN_DURATION, MICROSACCADE_MAX_DURATION)
MicroDurations(rnd) ==
    {d \in rnd.micro : MICROSACCADE_MIN_DURATION <= d /\ d <= MICROSACCADE_MAX_DURATION}

----------------------------------------------------------------------------
(* class Eye *)

Min(a, b) == IF a <= b THEN a ELSE b

\* Eye.__init__ at clock value t
NewEye(t) ==
    [ eye_x |-> Zero, eye_y |-> Zero,
      in_motion |-> FALSE, move_start_time |-> 0, move_duration |-> 0,
      old_x |-> Zero, old_y |-> Zero, new_x |-> Zero, new_y |-> Zero,
      blink_state |-> NOBLINK, blink_start_time |-> 0, blink_duration |-> 0,
      blink_factor |-> Zero,
      last_saccade_stop |-> t, saccade_interval |-> 0 ]

\* start_blink without the test of line 136: a blink in progress is restarted
start_blink_restart(e, t, duration) ==
    [e EXCEPT !.blink_state = ENBLINK,
              !.blink_start_time = t,
              !.blink_duration = duration]

\* Eye.start_blink(current_time_us, duration)
start_blink(e, t, duration) ==
    IF e.blink_state = NOBLINK
    THEN [e EXCEPT !.blink_state = ENBLINK,
                   !.blink_start_time = t,
                   !.blink_duration = duration]
    ELSE e

\* update_blink with the test of line 118 inverted: a closing eye jumps to
\* open, an opening eye closes again
update_blink_inverted(e, t) ==
    LET dt == t - e.blink_start_time IN
    IF e.blink_state # NOBLINK
    THEN IF dt >= e.blink_duration
         THEN IF e.blink_state # ENBLINK
              THEN [e EXCEPT !.blink_state = DEBLINK,
                             !.blink_duration = e.blink_duration * 2,
                             !.blink_start_time = t,
                             !.blink_factor = One]
              ELSE [e EXCEPT !.blink_state = NOBLINK,
                             !.blink_factor = Zero]
         ELSE IF e.blink_state = DEBLINK
              THEN [e EXCEPT !.blink_factor = FSub(One, Frac(dt, e.blink_duration))]
              ELSE [e EXCEPT !.blink_factor = Frac(dt, e.blink_duration)]
    ELSE e

\* update_blink without line 122: the opening phase is timed from the start
\* of the closing phase
update_blink_no_restart(e, t) ==
    LET dt == t - e.blink_start_time IN
    IF e.blink_state # NOBLINK
    THEN IF dt >= e.blink_duration
         THEN IF e.blink_state = ENBLINK
              THEN [e EXCEPT !.blink_state = DEBLINK,
                             !.blink_duration = e.blink_duration * 2,
                             !.blink_factor = One]
              ELSE [e EXCEPT !.blink_state = NOBLINK,
                             !.blink_factor = Zero]
         ELSE IF e.blink_state = DEBLINK
              THEN [e EXCEPT !.blink_factor = FSub(One, Frac(dt, e.blink_duration))]
              ELSE [e EXCEPT !.blink_factor = Frac(dt, e.blink_duration)]
    ELSE e

\* update_blink testing dt against twice the duration in line 116: the factor
\* keeps growing after the closing phase is over
update_blink_late(e, t) ==
    LET dt == t - e.blink_start_time IN
    IF e.blink_state # NOBLINK
    THEN IF dt >= e.blink_duration * 2
         THEN IF e.blink_state = ENBLINK
              THEN [e EXCEPT !.blink_state = DEBLINK,
                             !.blink_duration = e.blink_duration * 2,
                             !.blink_start_time = t,
                             !.blink_factor = One]
              ELSE [e EXCEPT !.blink_state = NOBLINK,
                             !.blink_factor = Zero]
         ELSE IF e.blink_state = DEBLINK
              THEN [e EXCEPT !.blink_factor = FSub(One, Frac(dt, e.blink_duration))]
              ELSE [e EXCEPT !.blink_factor = Frac(dt, e.blink_duration)]
    ELSE e

\* update_blink without lines 131-132: the factor rises during the opening
\* phase too
update_blink_rising(e, t) ==
    LET dt == t - e.blink_start_time IN
    IF e.blink_state # NOBLINK
    THEN IF dt >= e.blink_duration
         THEN IF e.blink_state = ENBLINK
              THEN [e EXCEPT !.blink_state = DEBLINK,
                             !.blink_duration = e.blink_duration * 2,
                             !.blink_start_time = t,
                             !.blink_factor = One]
              ELSE [e EXCEPT !.blink_state = NOBLINK,
                             !.blink_factor = Zero]
         ELSE [e EXCEPT !.blink_factor = Frac(dt, e.blink_duration)]
    ELSE e

\* update_blink never ending the opening phase
update_blink_never_open(e, t) ==
    LET dt == t - e.blink_start_time IN
    IF e.blink_state # NOBLINK
    THEN IF dt >= e.blink_duration
         THEN IF e.blink_state = ENBLINK
              THEN [e EXCEPT !.blink_state = DEBLINK,
                             !.blink_duration = e.blink_duration * 2,
                             !.blink_start_time = t,
                             !.blink_factor = One]
              ELSE [e EXCEPT !.blink_factor = Zero]
         ELSE IF e.blink_state = DEBLINK
              THEN [e EXCEPT !.blink_factor = FSub(One, Frac(dt, e.blink_duration))]
              ELSE [e EXCEPT !.blink_factor = Frac(dt, e.blink_duration)]
    ELSE e

\* Eye.update_blink(current_time_us)
update_blink(e, t) ==
    LET dt == t - e.blink_start_time IN
    IF e.blink_state # NOBLINK
    THEN IF dt >= e.blink_duration
         THEN IF e.blink_state = ENBLINK
              THEN [e EXCEPT !.blink_state = DEBLINK,
                             !.blink_duration = e.blink_duration * 2,
                             !.blink_start_time = t,
                             !.blink_factor = One]
              ELSE [e EXCEPT !.blink_state = NOBLINK,
                             !.blink_factor = Zero]
         ELSE IF e.blink_state = DEBLINK
              THEN [e EXCEPT !.blink_factor = FSub(One, Frac(dt, e.blink_duration))]
              ELSE [e EXCEPT !.blink_factor = Frac(dt, e.blink_duration)]
    ELSE e

\* update_tracking scaling by the saccade radius 0.75 instead of 0.9
update_tracking_saccade_radius(e, target_x, target_y) ==
    LET r == Frac(DISPLAY_SIZE * 3, 4) IN
    [e EXCEPT !.eye_x = FMul(target_x, r),
              !.eye_y = FMul(target_y, r)]

\* update_tracking ending the move in progress on the tracked position
update_tracking_stops(e, target_x, target_y) ==
    LET r == Frac(DISPLAY_SIZE * 9, 10) IN
    [e EXCEPT !.eye_x = FMul(target_x, r), !.old_x = FMul(target_x, r),
              !.eye_y = FMul(target_y, r), !.old_y = FMul(target_y, r),
              !.in_motion = FALSE]

\* Eye.update_tracking(target_x, target_y)
update_tracking(e, target_x, target_y) ==
    LET r == Frac(DISPLAY_SIZE * 9, 10) IN
    [e EXCEPT !.eye_x = FMul(target_x, r),
              !.eye_y = FMul(target_y, r)]

\* no easing: the progress itself
Ease_linear(dt, duration) == Frac(dt, duration)

\* the easing 3e^2 - 2e^3 of lines 75-76
Ease(dt, duration) ==
    CHOOSE f \in {Frac(3 * e[1] * e[1] * e[2] - 2 * e[1] * e[1] * e[1],
                       e[2] * e[2] * e[2]) : e \in {Frac(dt, duration)}} : TRUE

\* the points of the disk of radius r that are drawn by x = uniform(-r, r),
\* h = sqrt(r * r - x * x), y = uniform(-h, h) (lines 88-90 and 96-99); the
\* samples of x are those for which the square root is exact
DiskDraws(r, rnd) ==
    UNION { { <<x, y>> :
                y \in UNION { Uniform(FNeg(h), h, rnd.y) :
                                h \in {FSqrt(FSub(FMul(r, r), FMul(x, x)))} } } :
            x \in {u \in Uniform(FNeg(r), r, rnd.x) :
                      HasRoot(FSub(FMul(r, r), FMul(u, u)))} }

\* the draws with y = uniform(-r, r): the points of the square of side 2r
SquareDraws(r, rnd) ==
    { <<x, y>> : x \in Uniform(FNeg(r), r, rnd.x), y \in Uniform(FNeg(r), r, rnd.y) }

\* a major saccade whose target is drawn in the square
SaccadeTargets_square(rnd) == SquareDraws(Frac(DISPLAY_SIZE * 3, 4), rnd)

\* lines 87-90: the target (new_x, new_y) of a major saccade
SaccadeTargets(rnd) == DiskDraws(Frac(DISPLAY_SIZE * 3, 4), rnd)

\* a microsaccade whose offset is drawn in the square
MicroOffsets_square(rnd) == SquareDraws(Frac(DISPLAY_SIZE * 7, 100), rnd)

\* lines 95-99: the offset (dx, dy) of a microsaccade from the position
MicroOffsets(rnd) == DiskDraws(Frac(DISPLAY_SIZE * 7, 100), rnd)

\* the next move is started at once, whatever the hold
HoldElapsed_at_once(e, t) == TRUE

\* line 84: the hold of an idle eye has elapsed
HoldElapsed(e, t) == (t - e.move_start_time) > e.move_duration

\* line 85 without the test: every move is a major saccade
SaccadeDue_always(e, t) == TRUE

\* line 85: whether the pending saccade interval has run out at clock value t
SaccadeDue(e, t) == (t - e.last_saccade_stop) > e.saccade_interval

\* update_autonomous drawing a new saccade interval at the end of every move,
\* a pending one being dropped
update_autonomous_redraws(e, t, rnd) ==
    LET dt == t - e.move_start_time IN
    IF e.in_motion
    THEN IF dt >= e.move_duration
         THEN LET limit == Min(1000000, GAZE_MAX)
                  done == [e EXCEPT !.in_motion = FALSE,
                                    !.eye_x = e.new_x, !.old_x = e.new_x,
                                    !.eye_y = e.new_y, !.old_y = e.new_y,
                                    !.move_start_time = t]
              IN  IF e.saccade_interval >= 0
                  THEN { [done EXCEPT !.move_duration = hold,
                                      !.last_saccade_stop = t,
                                      !.saccade_interval = interval] :
                           <<hold, interval>> \in
                             UNION { {<<h, i>> : i \in IntervalDraws(rnd, h)} :
                                     h \in HoldDraws(rnd, limit) } }
                  ELSE { [done EXCEPT !.move_duration = hold] :
                           hold \in HoldDraws(rnd, limit) }
         ELSE LET ee == Ease(dt, e.move_duration)
              IN  { [e EXCEPT
                       !.eye_x = FAdd(e.old_x, FMul(FSub(e.new_x, e.old_x), ee)),
                       !.eye_y = FAdd(e.old_y, FMul(FSub(e.new_y, e.old_y), ee))] }
    ELSE LET stopped == [e EXCEPT !.eye_x = e.old_x, !.eye_y = e.old_y] IN
         IF HoldElapsed(e, t)
         THEN IF SaccadeDue(e, t)
              THEN { [stopped EXCEPT !.new_x = p[1], !.new_y = p[2],
                                     !.move_duration = d,
                                     !.saccade_interval = 0,
                                     !.move_start_time = t,
                                     !.in_motion = TRUE] :
                       p \in SaccadeTargets(rnd), d \in SaccadeDurations(rnd) }
              ELSE { [stopped EXCEPT !.new_x = FAdd(stopped.eye_x, p[1]),
                                     !.new_y = FAdd(stopped.eye_y, p[2]),
                                     !.move_duration = d,
                                     !.move_start_time = t,
                                     !.in_motion = TRUE] :
                       p \in MicroOffsets(rnd), d \in MicroDurations(rnd) }
         ELSE {stopped}

\* Eye.update_autonomous(current_time_us): the set of possible results, one
\* for each outcome of the random draws.
update_autonomous(e, t, rnd) ==
    LET dt == t - e.move_start_time IN
    IF e.in_motion
    THEN IF dt >= e.move_duration
         THEN LET limit == Min(1000000, GAZE_MAX)
                  done == [e EXCEPT !.in_motion = FALSE,
                                    !.eye_x = e.new_x, !.old_x = e.new_x,
                                    !.eye_y = e.new_y, !.old_y = e.new_y,
                                    !.move_start_time = t]
              IN  IF e.saccade_interval = 0
                  THEN { [done EXCEPT !.move_duration = hold,
                                      !.last_saccade_stop = t,
                                      !.saccade_interval = interval] :
                           <<hold, interval>> \in
                             UNION { {<<h, i>> : i \in IntervalDraws(rnd, h)} :
                                     h \in HoldDraws(rnd, limit) } }
                  ELSE { [done EXCEPT !.move_duration = hold] :
                           hold \in HoldDraws(rnd, limit) }
         ELSE LET ee == Ease(dt, e.move_duration)
              IN  { [e EXCEPT
                       !.eye_x = FAdd(e.old_x, FMul(FSub(e.new_x, e.old_x), ee)),
                       !.eye_y = FAdd(e.old_y, FMul(FSub(e.new_y, e.old_y), ee))] }
    ELSE LET stopped == [e EXCEPT !.eye_x = e.old_x, !.eye_y = e.old_y] IN
         IF HoldElapsed(e, t)
         THEN IF SaccadeDue(e, t)
              THEN { [stopped EXCEPT !.new_x = p[1], !.new_y = p[2],
                                     !.move_duration = d,
                                     !.saccade_interval = 0,
                                     !.move_start_time = t,
                                     !.in_motion = TRUE] :
                       p \in SaccadeTargets(rnd), d \in SaccadeDurations(rnd) }
              ELSE { [stopped EXCEPT !.new_x = FAdd(stopped.eye_x, p[1]),
                                     !.new_y = FAdd(stopped.eye_y, p[2]),
                                     !.move_duration = d,
                                     !.move_start_time = t,
                                     !.in_motion = TRUE] :
                       p \in MicroOffsets(rnd), d \in MicroDurations(rnd) }
         ELSE {stopped}

----------------------------------------------------------------------------
(* class FaceTracker (face_tracker.py): the detection state.  The frame     *)
(* rate bookkeeping (frame_count, fps_start_time, current_fps, lines 68-76) *)
(* and last_detection_time (line 105) record the wall clock and are read    *)
(* neither by detect_faces nor by the controller; they are left out.        *)

\* max(a, b) and min(a, b) on floats
FMax(a, b) == IF FLt(a, b) THEN b ELSE a
FMin(a, b) == IF FLt(b, a) THEN b ELSE a

\* The detection state FaceTracker.__init__ leaves (lines 36-40).
NewFaceTracker ==
    [ last_face_position |-> NoTarget, face_detected |-> FALSE,
      frames_without_face |-> 0, detection_confidence |-> Zero ]

\* max(faces, key=lambda rect: rect[2] * rect[3]): the first rectangle
\* (x, y, w, h) of the largest area
LargestFace(faces) ==
    faces[CHOOSE i \in 1..Len(faces) :
            /\ \A j \in 1..Len(faces) : faces[j][3] * faces[j][4] <= faces[i][3] * faces[i][4]
            /\ \A j \in 1..(i - 1) : faces[j][3] * faces[j][4] < faces[i][3] * faces[i][4]]

\* the position returned for the pixel centre of the face, neither normalised
\* nor clamped
NormalizedPosition_pixels(rect) ==
    << FAdd(FInt(rect[1]), Frac(rect[3], 2)), FAdd(FInt(rect[2]), Frac(rect[4], 2)) >>

\* lines 83-95: the centre of the rectangle (x, y, w, h), normalised to
\* [-1, 1] on each axis and clamped
NormalizedPosition(rect) ==
    LET face_center_x == FAdd(FInt(rect[1]), Frac(rect[3], 2))
        face_center_y == FAdd(FInt(rect[2]), Frac(rect[4], 2))
        normalized_x == FDiv(FSub(face_center_x, Frac(CAMERA_WIDTH, 2)), Frac(CAMERA_WIDTH, 2))
        normalized_y == FDiv(FSub(face_center_y, Frac(CAMERA_HEIGHT, 2)), Frac(CAMERA_HEIGHT, 2))
    IN  << FMax(FNeg(One), FMin(One, normalized_x)),
           FMax(FNeg(One), FMin(One, normalized_y)) >>

\* the last position is kept through the 30th frame without a face as well
KeepsLastPosition_through_30th(frames_without_face) == frames_without_face <= 30

\* line 118: the last position is kept while fewer than 30 frames in a row
\* have come without a face
KeepsLastPosition(frames_without_face) == frames_without_face < 30

\* FaceTracker.detect_faces() on the tracker tr: the state it leaves and the
\* value it returns (NoTarget for None).  raised tells whether
\* camera.capture_array() raises, which the except clause of line 125 turns
\* into None; faces are the rectangles detectMultiScale finds otherwise.
detect_faces(tr, raised, faces) ==
    IF raised
    THEN [tracker |-> tr, returns |-> NoTarget]
    ELSE IF Len(faces) > 0
    THEN LET largest_face == LargestFace(faces)
             face_area == largest_face[3] * largest_face[4]
             max_area == CAMERA_WIDTH * CAMERA_HEIGHT
             position == NormalizedPosition(largest_face)
         IN  [tracker |->
                [tr EXCEPT
                   !.detection_confidence =
                       FMin(One, FDiv(FInt(face_area), FMul(FInt(max_area), <<1, 4>>))),
                   !.last_face_position = position,
                   !.face_detected = TRUE,
                   !.frames_without_face = 0],
              returns |-> position]
    ELSE IF KeepsLastPosition(tr.frames_without_face + 1)
    THEN [tracker |-> [tr EXCEPT !.frames_without_face = @ + 1],
          returns |-> tr.last_face_position]
    ELSE [tracker |-> [tr EXCEPT !.frames_without_face = @ + 1,
                                 !.face_detected = FALSE,
                                 !.detection_confidence = Zero],
          returns |-> NoTarget]

----------------------------------------------------------------------------
(* class LEDController (led_controller.py): the settings of the strip.  The  *)
(* animation (animation_frame, last_update and the pixels that update()      *)
(* renders) is read by nothing but the rendering and is left out.            *)

\* class LEDPattern
LEDPattern == [SOLID |-> "solid", PULSE |-> "pulse", RAINBOW |-> "rainbow",
               CHASE |-> "chase", FIRE |-> "fire", STROBE |-> "strobe"]

\* The settings LEDController.__init__ leaves (lines 36-39).
NewLEDController ==
    [ brightness |-> DOTSTAR_BRIGHTNESS, current_pattern |-> DEFAULT_LED_PATTERN,
      pattern_speed |-> One ]

\* LEDController.set_brightness(brightness)
set_brightness(l, brightness) ==
    [l EXCEPT !.brightness = FMax(Zero, FMin(One, brightness))]

\* LEDController.set_pattern(pattern, speed)
set_pattern(l, pattern, speed) ==
    [l EXCEPT !.current_pattern = pattern, !.pattern_speed = speed]

----------------------------------------------------------------------------
(* class AudioManager (audio_manager.py).  A sound file is named by its file *)
(* name.  The playback thread and the thread that calls the manager run one  *)
(* statement at a time; the position of each is the line it runs next.       *)

\* the categories of SOUND_EFFECTS
SoundCategories == DOMAIN SOUND_EFFECTS

\* the files of SOUND_EFFECTS
AllSounds == UNION { {SOUND_EFFECTS[c][i] : i \in 1..Len(SOUND_EFFECTS[c])} : c \in SoundCategories }

\* _scan_sound_files(): for each category its files that exist, installed
\* being the files found under AUDIO_BASE_PATH
scan_sound_files(installed) ==
    [c \in SoundCategories |-> SelectSeq(SOUND_EFFECTS[c], LAMBDA f : f \in installed)]

\* The AudioManager that __init__ leaves, its playback thread started (lines
\* 18-47); device tells whether the ALSA device could be opened.
NewAudioManager(installed, device) ==
    [ audio_queue |-> <<>>, is_playing |-> FALSE, stop_playback |-> FALSE,
      device |-> device,
      available_sounds |-> scan_sound_files(installed),
      worker |-> [pc |-> "73", audio_file |-> "", data |-> 0],
      caller |-> "idle",
      stop_all_returned |-> FALSE ]

\* AudioManager.play_sound(category) without a specific file: the states it
\* can leave (random.choice among the files of the category)
play_sound(a, category) ==
    IF category \notin DOMAIN a.available_sounds
    THEN {a}
    ELSE IF a.available_sounds[category] = <<>>
    THEN {a}
    ELSE { [a EXCEPT !.audio_queue = Append(@, a.available_sounds[category][i])] :
             i \in 1..Len(a.available_sounds[category]) }

\* AudioManager.play_random_ambient()
play_random_ambient(a) == play_sound(a, "ambient")

\* AudioManager.play_detection_sound()
play_detection_sound(a) == play_sound(a, "detection")

\* AudioManager.is_currently_playing()
is_currently_playing(a) == a.is_playing

\* line 94 of _play_wav_file: self.is_playing = True
WorkerMarksPlaying(a) == [a EXCEPT !.is_playing = TRUE]

\* One statement of the playback thread (_playback_worker, lines 73-86, and
\* _play_wav_file, lines 90-124): the states it can leave.  chunks are the
\* numbers of 1024-frame blocks a sound file can hold; data is the number of
\* blocks not yet written.  "done": the thread has ended.
WorkerStep(a, chunks) ==
    LET w == a.worker IN
    IF w.pc = "73"
    THEN {[a EXCEPT !.worker.pc = IF a.stop_playback THEN "done" ELSE "76"]}
    ELSE IF w.pc = "76"
    THEN IF a.audio_queue # <<>>
         THEN {[a EXCEPT !.audio_queue = Tail(@),
                         !.worker.audio_file = Head(a.audio_queue),
                         !.worker.pc = "78"]}
         ELSE {[a EXCEPT !.worker.pc = "73"]}
    ELSE IF w.pc = "78"
    THEN {[a EXCEPT !.worker.pc = IF a.device THEN "94" ELSE "81"]}
    ELSE IF w.pc = "94"
    THEN {[WorkerMarksPlaying(a) EXCEPT !.worker.pc = "96"]}
    ELSE IF w.pc = "96"
    THEN {[a EXCEPT !.worker.pc = "124"]}
            \cup {[a EXCEPT !.worker.data = n, !.worker.pc = "107"] : n \in chunks}
    ELSE IF w.pc = "107"
    THEN {[a EXCEPT !.worker.pc = IF w.data # 0 /\ ~a.stop_playback THEN "115" ELSE "124"]}
    ELSE IF w.pc = "115"
    THEN {[a EXCEPT !.worker.pc = "124"],
          [a EXCEPT !.worker.data = @ - 1, !.worker.pc = "107"]}
    ELSE IF w.pc = "124"
    THEN {[a EXCEPT !.is_playing = FALSE, !.worker.data = 0, !.worker.pc = "81"]}
    ELSE IF w.pc = "81"
    THEN {[a EXCEPT !.worker.audio_file = "", !.worker.pc = "73"]}
    ELSE {}

\* One statement of AudioManager.stop_all() (lines 185-192) run by the
\* calling thread, from its call ("idle") to its return.
StopAllStep(a) ==
    IF a.caller = "idle"
    THEN [a EXCEPT !.caller = "185"]
    ELSE IF a.caller = "185"
    THEN [a EXCEPT !.caller = IF a.audio_queue # <<>> THEN "187" ELSE "191"]
    ELSE IF a.caller = "187"
    THEN IF a.audio_queue # <<>>
         THEN [a EXCEPT !.audio_queue = Tail(@), !.caller = "185"]
         ELSE [a EXCEPT !.caller = "191"]
    ELSE IF a.caller = "191"
    THEN [a EXCEPT !.stop_playback = TRUE, !.caller = "192"]
    ELSE [a EXCEPT !.is_playing = FALSE, !.caller = "idle", !.stop_all_returned = TRUE]

----------------------------------------------------------------------------
(* class SkullController (main.py): the state.  Its clock values are kept in *)
(* microseconds like those of the eyes.  The frame counter of the FPS report *)
(* (frame_count, fps_start_time) is read by the report alone and left out.   *)

\* The state SkullController.__init__ leaves at clock value t (lines 30-34).
NewSkullController(t) ==
    [ current_mode |-> DEFAULT_MODE, last_activity_time |-> t, last_mode_check |-> t,
      face_was_detected |-> FALSE, last_ambient_sound |-> t ]

----------------------------------------------------------------------------
(* class EyeController *)

EyeNames == {"left", "right", "middle"}

\* iteration order of self.eyes.values()
EyeOrder == <<"left", "right", "middle">>

\* the scheduler rescheduling by now + duration + interval instead of
\* now + duration * 3 + interval
Schedule_short(t, last, next, rnd) ==
    IF t >= next
    THEN { [fired |-> TRUE, duration |-> duration, last |-> t,
            next |-> t + duration + interval] :
             duration \in rnd.blink, interval \in rnd.interval }
    ELSE { [fired |-> FALSE, duration |-> 0, last |-> last, next |-> next] }

\* The blink scheduler of EyeController.update (lines 193-198) at clock value
\* t, last and next being last_blink_time and next_blink_time: whether it
\* fires, the duration drawn, and the new schedule.
Schedule(t, last, next, rnd) ==
    IF t >= next
    THEN { [fired |-> TRUE, duration |-> duration, last |-> t,
            next |-> t + duration * 3 + interval] :
             duration \in rnd.blink, interval \in rnd.interval }
    ELSE { [fired |-> FALSE, duration |-> 0, last |-> last, next |-> next] }

\* the scheduler starting the blink of the middle eye only
StartBlinks_middle_only(es, t, sched) ==
    IF sched.fired
    THEN [es EXCEPT !["middle"] = start_blink(es["middle"], t, sched.duration)]
    ELSE es

\* lines 195-196: start_blink on every eye when the scheduler fired
StartBlinks(es, t, sched) ==
    IF sched.fired
    THEN [n \in EyeNames |-> start_blink(es[n], t, sched.duration)]
    ELSE es

\* update_blink on the right and the middle eye only
UpdateBlinks_not_left(es, t) ==
    [n \in EyeNames |-> IF n = "left" THEN es[n] ELSE update_blink(es[n], t)]

\* lines 201-202: update_blink on every eye
UpdateBlinks(es, t) == [n \in EyeNames |-> update_blink(es[n], t)]

\* the dispatch with every eye tracking the target in tracking mode
Dispatch_all_track(es, m, face_position, t, rnd) ==
    IF m = EYE_MODES.TRACKING /\ face_position # NoTarget
    THEN { [n \in EyeNames |->
              update_tracking(es[n], face_position[1], face_position[2])] }
    ELSE IF m \in {EYE_MODES.TRACKING, EYE_MODES.WANDERING}
    THEN { [n \in EyeNames |->
              IF n = "middle" THEN mid ELSE IF n = "left" THEN l ELSE r] :
             <<l, r, mid>> \in
               update_autonomous(es["left"], t, rnd)
               \X update_autonomous(es["right"], t, rnd)
               \X update_autonomous(es["middle"], t, rnd) }
    ELSE IF m = EYE_MODES.REST
    THEN { [n \in EyeNames |-> [es[n] EXCEPT !.blink_factor = One]] }
    ELSE { es }

\* the dispatch with the middle eye tracking the target in wandering mode too
Dispatch_wandering_tracks(es, m, face_position, t, rnd) ==
    IF m \in {EYE_MODES.TRACKING, EYE_MODES.WANDERING}
    THEN { [n \in EyeNames |->
              IF n = "middle" THEN mid ELSE IF n = "left" THEN l ELSE r] :
             <<mid, l, r>> \in
               (IF face_position # NoTarget
                THEN {update_tracking(es["middle"], face_position[1], face_position[2])}
                ELSE update_autonomous(es["middle"], t, rnd))
               \X update_autonomous(es["left"], t, rnd)
               \X update_autonomous(es["right"], t, rnd) }
    ELSE IF m = EYE_MODES.REST
    THEN { [n \in EyeNames |-> [es[n] EXCEPT !.blink_factor = One]] }
    ELSE { es }

\* the dispatch with the eyes wandering behind their closed lids in rest mode
Dispatch_rest_wanders(es, m, face_position, t, rnd) ==
    IF m = EYE_MODES.TRACKING
    THEN { [n \in EyeNames |->
              IF n = "middle" THEN mid ELSE IF n = "left" THEN l ELSE r] :
             <<mid, l, r>> \in
               (IF face_position # NoTarget
                THEN {update_tracking(es["middle"], face_position[1], face_position[2])}
                ELSE update_autonomous(es["middle"], t, rnd))
               \X update_autonomous(es["left"], t, rnd)
               \X update_autonomous(es["right"], t, rnd) }
    ELSE IF m \in {EYE_MODES.WANDERING, EYE_MODES.REST}
    THEN { [n \in EyeNames |->
              [(IF n = "middle" THEN mid ELSE IF n = "left" THEN l ELSE r)
                 EXCEPT !.blink_factor = IF m = EYE_MODES.REST THEN One ELSE @]] :
             <<l, r, mid>> \in
               update_autonomous(es["left"], t, rnd)
               \X update_autonomous(es["right"], t, rnd)
               \X update_autonomous(es["middle"], t, rnd) }
    ELSE { es }

\* the dispatch closing, in rest mode, only the eyes that are not blinking
Dispatch_rest_open_only(es, m, face_position, t, rnd) ==
    IF m = EYE_MODES.TRACKING
    THEN { [n \in EyeNames |->
              IF n = "middle" THEN mid ELSE IF n = "left" THEN l ELSE r] :
             <<mid, l, r>> \in
               (IF face_position # NoTarget
                THEN {update_tracking(es["middle"], face_position[1], face_position[2])}
                ELSE update_autonomous(es["middle"], t, rnd))
               \X update_autonomous(es["left"], t, rnd)
               \X update_autonomous(es["right"], t, rnd) }
    ELSE IF m = EYE_MODES.WANDERING
    THEN { [n \in EyeNames |->
              IF n = "middle" THEN mid ELSE IF n = "left" THEN l ELSE r] :
             <<l, r, mid>> \in
               update_autonomous(es["left"], t, rnd)
               \X update_autonomous(es["right"], t, rnd)
               \X update_autonomous(es["middle"], t, rnd) }
    ELSE IF m = EYE_MODES.REST
    THEN { [n \in EyeNames |-> IF es[n].blink_state = NOBLINK
                            THEN [es[n] EXCEPT !.blink_factor = One]
                            ELSE es[n]] }
    ELSE { es }

\* the dispatch ending, in rest mode, the blink in progress
Dispatch_rest_ends_blink(es, m, face_position, t, rnd) ==
    IF m = EYE_MODES.TRACKING
    THEN { [n \in EyeNames |->
              IF n = "middle" THEN mid ELSE IF n = "left" THEN l ELSE r] :
             <<mid, l, r>> \in
               (IF face_position # NoTarget
                THEN {update_tracking(es["middle"], face_position[1], face_position[2])}
                ELSE update_autonomous(es["middle"], t, rnd))
               \X update_autonomous(es["left"], t, rnd)
               \X update_autonomous(es["right"], t, rnd) }
    ELSE IF m = EYE_MODES.WANDERING
    THEN { [n \in EyeNames |->
              IF n = "middle" THEN mid ELSE IF n = "left" THEN l ELSE r] :
             <<l, r, mid>> \in
               update_autonomous(es["left"], t, rnd)
               \X update_autonomous(es["right"], t, rnd)
               \X update_autonomous(es["middle"], t, rnd) }
    ELSE IF m = EYE_MODES.REST
    THEN { [n \in EyeNames |-> [es[n] EXCEPT !.blink_factor = One,
                                          !.blink_state = NOBLINK]] }
    ELSE { es }

\* lines 205-223: the motion update selected by the mode; the set of possible
\* results.
Dispatch(es, m, face_position, t, rnd) ==
    IF m = EYE_MODES.TRACKING
    THEN { [n \in EyeNames |->
              IF n = "middle" THEN mid ELSE IF n = "left" THEN l ELSE r] :
             <<mid, l, r>> \in
               (IF face_position # NoTarget
                THEN {update_tracking(es["middle"], face_position[1], face_position[2])}
                ELSE update_autonomous(es["middle"], t, rnd))
               \X update_autonomous(es["left"], t, rnd)
               \X update_autonomous(es["right"], t, rnd) }
    ELSE IF m = EYE_MODES.WANDERING
    THEN { [n \in EyeNames |->
              IF n = "middle" THEN mid ELSE IF n = "left" THEN l ELSE r] :
             <<l, r, mid>> \in
               update_autonomous(es["left"], t, rnd)
               \X update_autonomous(es["right"], t, rnd)
               \X update_autonomous(es["middle"], t, rnd) }
    ELSE IF m = EYE_MODES.REST
    THEN { [n \in EyeNames |-> [es[n] EXCEPT !.blink_factor = One]] }
    ELSE { es }

\* The loops of EyeController.update run one eye after the other, in the
\* order given, each call made on the eyes es as the calls before it left
\* them.

\* line 196 for the eye n
StartOf(es, n, t, sched) ==
    [es EXCEPT ![n] = start_blink(es[n], t, sched.duration)]

\* lines 195-196, the eyes visited in the order given
RECURSIVE StartIn(_, _, _, _)
StartIn(order, es, t, sched) ==
    IF ~sched.fired \/ order = <<>>
    THEN es
    ELSE CHOOSE r \in {StartIn(Tail(order), x, t, sched) :
                         x \in {StartOf(es, Head(order), t, sched)}} : TRUE

\* line 202 for the eye n
BlinkOf(es, n, t) == [es EXCEPT ![n] = update_blink(es[n], t)]

\* lines 201-202, the eyes visited in the order given
RECURSIVE BlinkIn(_, _, _)
BlinkIn(order, es, t) ==
    IF order = <<>>
    THEN es
    ELSE CHOOSE r \in {BlinkIn(Tail(order), x, t) :
                         x \in {BlinkOf(es, Head(order), t)}} : TRUE

\* the motion update of the eye n with the right eye made to follow the
\* position of the left eye
MotionOf_conjugate(es, n, m, face_position, t, rnd) ==
    { [es EXCEPT ![n] = IF n = "right" /\ m # EYE_MODES.REST
                        THEN [x EXCEPT !.eye_x = es["left"].eye_x,
                                       !.eye_y = es["left"].eye_y]
                        ELSE x] :
        x \in IF m = EYE_MODES.TRACKING
              THEN IF n = "middle" /\ face_position # NoTarget
                   THEN {update_tracking(es[n], face_position[1], face_position[2])}
                   ELSE update_autonomous(es[n], t, rnd)
              ELSE IF m = EYE_MODES.WANDERING
              THEN update_autonomous(es[n], t, rnd)
              ELSE IF m = EYE_MODES.REST
              THEN {[es[n] EXCEPT !.blink_factor = One]}
              ELSE {es[n]} }

\* lines 205-223 for the eye n: the motion update the mode selects for it
MotionOf(es, n, m, face_position, t, rnd) ==
    { [es EXCEPT ![n] = x] :
        x \in IF m = EYE_MODES.TRACKING
              THEN IF n = "middle" /\ face_position # NoTarget
                   THEN {update_tracking(es[n], face_position[1], face_position[2])}
                   ELSE update_autonomous(es[n], t, rnd)
              ELSE IF m = EYE_MODES.WANDERING
              THEN update_autonomous(es[n], t, rnd)
              ELSE IF m = EYE_MODES.REST
              THEN {[es[n] EXCEPT !.blink_factor = One]}
              ELSE {es[n]} }

\* lines 205-223, the eyes visited in the order given
RECURSIVE MotionIn(_, _, _, _, _, _)
MotionIn(order, es, m, face_position, t, rnd) ==
    IF order = <<>>
    THEN {es}
    ELSE UNION { MotionIn(Tail(order), x, m, face_position, t, rnd) :
                   x \in MotionOf(es, Head(order), m, face_position, t, rnd) }

\* lines 195-223 with the eyes visited in the order given in each of the loops
UpdateIn(order, es, m, current_time_us, face_position, rnd, sched) ==
    UNION { MotionIn(order, blinked, m, face_position, current_time_us, rnd) :
              blinked \in {BlinkIn(order, started, current_time_us) :
                             started \in {StartIn(order, es, current_time_us, sched)}} }

\* the orders in which three eyes can be visited
EyeOrders ==
    { o \in EyeNames \X EyeNames \X EyeNames : {o[1], o[2], o[3]} = EyeNames }

\* The Eye methods EyeController.update invokes, in the order of the code.
StartCalls(t, sched) ==
    IF sched.fired
    THEN [i \in 1..Len(EyeOrder) |-> <<"start_blink", EyeOrder[i], t, sched.duration>>]
    ELSE <<>>

BlinkCalls(t) == [i \in 1..Len(EyeOrder) |-> <<"update_blink", EyeOrder[i], t>>]

MotionCalls(m, face_position, t) ==
    IF m = EYE_MODES.TRACKING
    THEN << (IF face_position # NoTarget
             THEN <<"update_tracking", "middle", face_position[1], face_position[2]>>
             ELSE <<"update_autonomous", "middle", t>>),
            <<"update_autonomous", "left", t>>,
            <<"update_autonomous", "right", t>> >>
    ELSE IF m = EYE_MODES.WANDERING
    THEN [i \in 1..Len(EyeOrder) |-> <<"update_autonomous", EyeOrder[i], t>>]
    ELSE <<>>

\* EyeController.__init__ (and the Eye constructors it runs), the random
\* module giving the outcomes rnd
ConstructWith(rnd, installed, device) ==
    /\ now = ConstructTime
    /\ mode = DEFAULT_MODE
    /\ eyes = [n \in EyeNames |-> NewEye(ConstructTime)]
    /\ last_blink_time = ConstructTime
    /\ next_blink_time \in {ConstructTime + i : i \in rnd.interval}
    /\ calls = <<>>
    /\ ticks = 0
    /\ eye = NewEye(ConstructTime)
    /\ op = <<>>
    /\ tracker = NewFaceTracker
    /\ skull = NewSkullController(ConstructTime)
    /\ leds = NewLEDController
    /\ audio = NewAudioManager(installed, device)

\* with every sound file installed and the audio device opened
Construct(rnd) == ConstructWith(rnd, AllSounds, TRUE)

Init == Construct(CtlRandom)

\* the result of a Python function that ends without a return statement
None == "None"

\* set_mode accepting any value
set_mode_unchecked(self_mode, m) == [mode |-> m, returns |-> None]

\* EyeController.set_mode(m) on a controller in mode self_mode: the mode it
\* leaves and the value it returns (both branches print and fall off the end
\* of the function).
set_mode(self_mode, m) ==
    IF m \in EyeModeValues
    THEN [mode |-> m, returns |-> None]
    ELSE [mode |-> self_mode, returns |-> None]

\* EyeController.set_mode(m)
SetMode ==
    \E m \in ModeArgs :
       /\ mode' = set_mode(mode, m).mode
       /\ UNCHANGED <<now, eyes, last_blink_time, next_blink_time, calls, ticks, eye, op, tracker, sysVars>>

\* the body of update with the blink progression run before the scheduler
UpdateBody_blinks_first(es, last, next, current_time_us, face_position, rnd) ==
    \E sched \in Schedule(current_time_us, last, next, rnd) :
       /\ last_blink_time' = sched.last
       /\ next_blink_time' = sched.next
       /\ \E blinked \in {UpdateBlinks(es, current_time_us)} :
          \E started \in {StartBlinks(blinked, current_time_us, sched)} :
             eyes' \in Dispatch(started, mode, face_position, current_time_us, rnd)
       /\ calls' = BlinkCalls(current_time_us)
                     \o StartCalls(current_time_us, sched)
                     \o MotionCalls(mode, face_position, current_time_us)

\* The body of EyeController.update(face_position) (lines 192-223) run at
\* clock value current_time_us on the eyes es and the schedule last, next.
UpdateBody(es, last, next, current_time_us, face_position, rnd) ==
    \E sched \in Schedule(current_time_us, last, next, rnd) :
       /\ last_blink_time' = sched.last
       /\ next_blink_time' = sched.next
       /\ \E started \in {StartBlinks(es, current_time_us, sched)} :
          \E blinked \in {UpdateBlinks(started, current_time_us)} :
             eyes' \in Dispatch(blinked, mode, face_position, current_time_us, rnd)
       /\ calls' = StartCalls(current_time_us, sched)
                     \o BlinkCalls(current_time_us)
                     \o MotionCalls(mode, face_position, current_time_us)

\* The states of the eyes that EyeController.update(face_position) can leave
\* when it runs in mode m at clock value current_time_us on the eyes es, the
\* scheduler having made the draws of sched (lines 195-223).
UpdateResults(es, m, current_time_us, face_position, rnd, sched) ==
    Dispatch(UpdateBlinks(StartBlinks(es, current_time_us, sched), current_time_us),
             m, face_position, current_time_us, rnd)

\* a tick that wakes the controller up from rest mode when it is given a target
Update_wakes(step, face_position) ==
    /\ ticks < MaxTicks
    /\ ticks' = ticks + 1
    /\ now' = now + step
    /\ UpdateBody(eyes, last_blink_time, next_blink_time, now + step, face_position, CtlRandom)
    /\ mode' = IF mode = EYE_MODES.REST /\ face_position # NoTarget
               THEN EYE_MODES.TRACKING ELSE mode
    /\ UNCHANGED <<eye, op, tracker, sysVars>>

\* EyeController.update(face_position), the clock having advanced by step
Update(step, face_position) ==
    /\ ticks < MaxTicks
    /\ ticks' = ticks + 1
    /\ now' = now + step
    /\ UpdateBody(eyes, last_blink_time, next_blink_time, now + step, face_position, CtlRandom)
    /\ UNCHANGED <<mode, eye, op, tracker, sysVars>>

Tick == \E step \in TickSteps, face_position \in Targets : Update(step, face_position)

Next == Tick \/ SetMode

Spec == Init /\ [][Next]_vars

----------------------------------------------------------------------------
(* The controller with its set_mode calls recorded. *)

\* clock advances between two ticks
ModeSteps == {50000, 4200000}

\* EyeController.set_mode(m), the call and its result recorded in op
SetModeCall ==
    \E m \in ModeArgs :
       /\ mode' = set_mode(mode, m).mode
       /\ op' = <<"set_mode", m, set_mode(mode, m).returns>>
       /\ UNCHANGED <<now, eyes, last_blink_time, next_blink_time, calls, ticks, eye, tracker, sysVars>>

TickMode == \E step \in ModeSteps, face_position \in Targets : Update(step, face_position)

NextMode == TickMode \/ SetModeCall

SpecMode == Init /\ [][NextMode]_vars

----------------------------------------------------------------------------
(* The controller followed for a few ticks, for the properties that compare *)
(* each tick with the other ways it could have run.                         *)

\* EyeController.update is called at most MaxOrderTicks times.
MaxOrderTicks == 3

TickOrder == ticks < MaxOrderTicks /\ Tick

NextOrder == TickOrder \/ SetMode

SpecOrder == Init /\ [][NextOrder]_vars

----------------------------------------------------------------------------
(* A stand-alone Eye whose blink methods are called directly, in any order, *)
(* with non-decreasing clock values.                                        *)

\* eye.start_blink(t, duration)
EyeStartBlink ==
    \E step \in EyeSteps, duration \in EyeBlinkDurations :
       LET t == now + step IN
       /\ t <= ConstructTime + MaxEyeElapsed
       /\ now' = t
       /\ eye' = start_blink(eye, t, duration)
       /\ op' = <<"start_blink", t, duration>>
       /\ UNCHANGED <<ctlVars, tracker, sysVars>>

\* eye.update_blink(t)
EyeUpdateBlink ==
    \E step \in EyeSteps :
       LET t == now + step IN
       /\ t <= ConstructTime + MaxEyeElapsed
       /\ now' = t
       /\ eye' = update_blink(eye, t)
       /\ op' = <<"update_blink", t>>
       /\ UNCHANGED <<ctlVars, tracker, sysVars>>

\* the stand-alone Eye just constructed; the controller is not used
InitBlink == Init /\ next_blink_time = ConstructTime + BLINK_INTERVAL_MIN

NextBlink == EyeStartBlink \/ EyeUpdateBlink

SpecBlink == InitBlink /\ [][NextBlink]_vars

----------------------------------------------------------------------------
(* A stand-alone Eye whose update_autonomous method is called directly, with *)
(* non-decreasing clock values.                                              *)

\* the longest time the stand-alone Eye is followed for
MaxMotionElapsed == 400000

\* clock advances between two update_autonomous calls
MotionSteps == {0, 25000, 50000}

\* eye.update_autonomous(t)
EyeUpdateAutonomous ==
    \E step \in MotionSteps :
       LET t == now + step IN
       /\ t <= ConstructTime + MaxMotionElapsed
       /\ now' = t
       /\ eye' \in update_autonomous(eye, t, EyeRandom)
       /\ op' = <<"update_autonomous", t>>
       /\ UNCHANGED <<ctlVars, tracker, sysVars>>

NextMotion == EyeUpdateAutonomous

SpecMotion == InitBlink /\ [][NextMotion]_vars

----------------------------------------------------------------------------
(* A stand-alone Eye whose update_autonomous method is called on every tick *)
(* of a regular clock, for several seconds.                                 *)

\* the longest time the wandering Eye is followed for
MaxGazeElapsed == 4400000

\* clock advance between two ticks
GazeSteps == {50000}

\* The outcomes of the random module enumerated for the wandering Eye.
GazeRandom ==
    [ x |-> {<<4, 5>>}, y |-> {<<1, 1>>},
      hold |-> {35000, 1000000}, gaze |-> {"lo", "hi"},
      saccade |-> {100000},
      micro |-> {MICROSACCADE_MAX_DURATION} ]

\* eye.update_autonomous(t) on a tick
EyeWander ==
    \E step \in GazeSteps :
       LET t == now + step IN
       /\ t <= ConstructTime + MaxGazeElapsed
       /\ now' = t
       /\ eye' \in update_autonomous(eye, t, GazeRandom)
       /\ op' = <<"update_autonomous", t>>
       /\ UNCHANGED <<ctlVars, tracker, sysVars>>

NextGaze == EyeWander

SpecGaze == InitBlink /\ [][NextGaze]_vars

----------------------------------------------------------------------------
(* A stand-alone Eye whose update_autonomous method is called on the ticks  *)
(* of a fine clock, so that every move is sampled many times.               *)

\* the longest time the Eye is followed for
MaxEaseElapsed == 300000

\* clock advance between two ticks
EaseSteps == {5000}

\* The outcomes of the random module enumerated for the finely sampled Eye.
EaseRandom ==
    [ x |-> {<<0, 1>>}, y |-> {<<0, 1>>},
      hold |-> {35000}, gaze |-> {"hi"},
      saccade |-> {100000, 125000},
      micro |-> {10000, MICROSACCADE_MAX_DURATION} ]

\* eye.update_autonomous(t) on a tick
EyeGlide ==
    \E step \in EaseSteps :
       LET t == now + step IN
       /\ t <= ConstructTime + MaxEaseElapsed
       /\ now' = t
       /\ eye' \in update_autonomous(eye, t, EaseRandom)
       /\ op' = <<"update_autonomous", t>>
       /\ UNCHANGED <<ctlVars, tracker, sysVars>>

NextEase == EyeGlide

SpecEase == InitBlink /\ [][NextEase]_vars

----------------------------------------------------------------------------
(* A FaceTracker whose detect_faces method is called once per camera frame. *)

\* detect_faces is followed for at most MaxFramesWithoutFace frames without a
\* face in a row
MaxFramesWithoutFace == 32

\* rectangles (x, y, w, h) that detectMultiScale reports in a frame of
\* CAMERA_WIDTH x CAMERA_HEIGHT pixels with minSize = (30, 30)
FaceRects == { <<0, 0, 30, 30>>, <<610, 450, 30, 30>>, <<160, 120, 320, 240>>,
               <<0, 0, 640, 480>> }

\* what detectMultiScale finds in a frame: no face, one face or two faces
Frames ==
    {<<>>} \cup {<<a>> : a \in FaceRects}
           \cup {<<a, b>> : a \in FaceRects, b \in FaceRects}

\* a capture: the camera raises, or delivers a frame
Captures ==
    {[raised |-> TRUE, faces |-> <<>>]} \cup {[raised |-> FALSE, faces |-> f] : f \in Frames}

\* tracker.detect_faces()
DetectFaces ==
    \E capture \in Captures :
       /\ tracker.frames_without_face < MaxFramesWithoutFace
       /\ \E r \in {detect_faces(tracker, capture.raised, capture.faces)} :
             /\ tracker' = r.tracker
             /\ op' = <<"detect_faces", capture, r.returns>>
       /\ UNCHANGED <<now, ctlVars, eye, sysVars>>

NextFace == DetectFaces

SpecFace == InitBlink /\ [][NextFace]_vars

----------------------------------------------------------------------------
(* The controller ticked for ever.  Only differences between the clock and  *)
(* the stored timestamps are read by the code, so the clock is kept at its  *)
(* value and the advance of time by step is modelled by moving every stored *)
(* timestamp back by step before the update runs.                           *)

\* The age of a stored timestamp is only ever compared with the duration
\* stored beside it, and that duration is never raised without the timestamp
\* being reset: blink_start_time with blink_duration (lines 116, 121-122,
\* 138-139), move_start_time with move_duration (lines 58, 66-72, 84, 91-102),
\* last_saccade_stop with saccade_interval (lines 69-70, 85, 92).  A
\* timestamp older than its duration compares like one just older than it;
\* last_blink_time is never read.

\* clock advances between two ticks of the main loop
LiveSteps == {36000, 4320000}

\* the face tracker reports no face
LiveTargets == {NoTarget}

\* The outcomes of the random module enumerated for the controller that is
\* ticked for ever.
LiveRandom ==
    [ x |-> {<<4, 5>>}, y |-> {<<1, 1>>},
      hold |-> {35000}, gaze |-> {"lo"},
      saccade |-> {100000},
      micro |-> {MICROSACCADE_MAX_DURATION},
      blink |-> {BLINK_MAX_DURATION}, interval |-> {4032000} ]

\* the timestamp ts seen from a clock t that has advanced by step, ages above
\* duration not being told apart
Older(ts, step, t, duration) ==
    IF t - (ts - step) > duration THEN t - (duration + 1) ELSE ts - step

\* the timestamps of an Eye seen from a clock t that has advanced by step
OlderEye(e, step, t) ==
    [e EXCEPT !.move_start_time = Older(e.move_start_time, step, t, e.move_duration),
              !.blink_start_time = Older(e.blink_start_time, step, t, e.blink_duration),
              !.last_saccade_stop = Older(e.last_saccade_stop, step, t, e.saccade_interval)]

\* EyeController.update(face_position), the clock having advanced by step
UpdateLive(step, face_position) ==
    /\ \E older \in {[n \in EyeNames |-> OlderEye(eyes[n], step, now)]} :
          UpdateBody(older, Older(last_blink_time, step, now, 0),
                     next_blink_time - step, now, face_position, LiveRandom)
    /\ UNCHANGED <<now, mode, ticks, eye, op, tracker, sysVars>>

TickLive == \E step \in LiveSteps, face_position \in LiveTargets : UpdateLive(step, face_position)

NextLive == TickLive \/ SetMode

InitLive == Construct(LiveRandom)

\* SkullController.run calls update for ever (while True), time.sleep(0.01)
\* between two calls: the tick is taken again and again, each time with the
\* clock strictly advanced.
SpecLive == InitLive /\ [][NextLive]_vars /\ WF_vars(TickLive)

----------------------------------------------------------------------------
(* The controller ticked at a pace of at most BLINK_INTERVAL_MIN / 2 between *)
(* two ticks, for any length of time; the clock is kept and the stored       *)
(* timestamps are moved back, as above.                                      *)

\* clock advances between two ticks: a short one, and the longest one of the
\* pace
PaceSteps == {40000, BLINK_INTERVAL_MIN \div 2}

\* The outcomes of the random module enumerated for the paced controller: the
\* shortest and the longest blink, the shortest interval between two blinks.
PaceRandom ==
    [ x |-> {<<4, 5>>}, y |-> {<<1, 1>>},
      hold |-> {35000}, gaze |-> {"lo"},
      saccade |-> {100000},
      micro |-> {MICROSACCADE_MAX_DURATION},
      blink |-> BlinkDurations, interval |-> {BLINK_INTERVAL_MIN} ]

\* EyeController.update(face_position), the clock having advanced by step
UpdatePace(step, face_position) ==
    /\ \E older \in {[n \in EyeNames |-> OlderEye(eyes[n], step, now)]} :
          UpdateBody(older, Older(last_blink_time, step, now, 0),
                     next_blink_time - step, now, face_position, PaceRandom)
    /\ UNCHANGED <<now, mode, ticks, eye, op, tracker, sysVars>>

TickPace == \E step \in PaceSteps, face_position \in LiveTargets : UpdatePace(step, face_position)

NextPace == TickPace \/ SetMode

InitPace == Construct(PaceRandom)

SpecPace == InitPace /\ [][NextPace]_vars

----------------------------------------------------------------------------
(* class SkullController (main.py): the main loop.  The parts of the system  *)
(* that one update reads and writes are gathered in a record sys: skull,     *)
(* mode (of the EyeController), leds, audio, tracker, the face_position that *)
(* detect_faces returned and sounds, the play_..._sound calls made so far in *)
(* the update.  An update reads the clock several times (lines 159, 186,     *)
(* 115); the run time of one update is taken as nothing, so all of them read *)
(* the same value t.                                                         *)

\* the detection sound is triggered on every update that reports a face
FaceJustDetected_every_update(face_detected, face_was_detected) == face_detected

\* lines 158 and 162: a face is reported and none was at the last update
FaceJustDetected(face_detected, face_was_detected) ==
    face_detected /\ ~face_was_detected

\* rest mode is entered as soon as the timeout is reached
Inactive_from_timeout(inactive_time) == inactive_time >= INACTIVITY_TIMEOUT

\* line 127: inactive for too long
Inactive(inactive_time) == inactive_time > INACTIVITY_TIMEOUT

\* SkullController.set_mode(mode) (lines 140-145)
SkullController_set_mode(sys, m) ==
    IF m # sys.skull.current_mode
    THEN [sys EXCEPT !.skull.current_mode = m, !.mode = set_mode(sys.mode, m).mode]
    ELSE sys

\* lines 151-176 of update: the face tracker is read, unless in rest mode,
\* and a change of the detection is acted upon
HandleFace(sys, t, capture) ==
    LET d == IF sys.skull.current_mode # EYE_MODES.REST
             THEN detect_faces(sys.tracker, capture.raised, capture.faces)
             ELSE [tracker |-> sys.tracker, returns |-> NoTarget]
        face_detected == d.tracker.face_detected
        was == sys.skull.face_was_detected
        seen == [sys EXCEPT !.tracker = d.tracker, !.face_position = d.returns]
    IN  IF face_detected
        THEN IF FaceJustDetected(face_detected, was)
             THEN { [seen EXCEPT !.skull.last_activity_time = t,
                                 !.skull.face_was_detected = TRUE,
                                 !.audio = a,
                                 !.sounds = Append(@, "play_detection_sound"),
                                 !.leds = set_pattern(@, LEDPattern.PULSE, <<3, 2>>)] :
                      a \in play_detection_sound(sys.audio) }
             ELSE { [seen EXCEPT !.skull.last_activity_time = t,
                                 !.skull.face_was_detected = TRUE] }
        ELSE { [seen EXCEPT !.skull.face_was_detected = FALSE,
                            !.leds = IF was THEN set_pattern(@, DEFAULT_LED_PATTERN, One)
                                     ELSE @] }

\* lines 186-190 of update: an ambient sound every 30 seconds
AmbientSound(sys, t) ==
    IF t - sys.skull.last_ambient_sound > 30 * 1000000
         /\ ~is_currently_playing(sys.audio)
    THEN { [sys EXCEPT !.audio = a,
                       !.sounds = Append(@, "play_random_ambient"),
                       !.skull.last_ambient_sound = t] :
             a \in play_random_ambient(sys.audio) }
    ELSE { sys }

\* SkullController.check_inactivity() (lines 113-138)
check_inactivity(sys, current_time) ==
    IF current_time - sys.skull.last_mode_check < LAST_ACTIVITY_CHECK_INTERVAL
    THEN { sys }
    ELSE LET checked == [sys EXCEPT !.skull.last_mode_check = current_time]
             inactive_time == current_time - sys.skull.last_activity_time
         IN  IF Inactive(inactive_time)
             THEN IF sys.skull.current_mode # EYE_MODES.REST
                  THEN { [SkullController_set_mode(checked, EYE_MODES.REST)
                            EXCEPT !.leds = set_brightness(@, <<1, 5>>)] }
                  ELSE { checked }
             ELSE IF sys.skull.current_mode = EYE_MODES.REST
                       /\ sys.tracker.face_detected
                  THEN { [SkullController_set_mode(checked, DEFAULT_MODE)
                            EXCEPT !.leds = set_brightness(@, DOTSTAR_BRIGHTNESS),
                                   !.audio = a,
                                   !.sounds = Append(@, "play_detection_sound")] :
                           a \in play_detection_sound(sys.audio) }
                  ELSE { checked }

\* SkullController.update() at clock value t without the update of the eyes
\* (line 179), which reads face_position and the mode the call began with:
\* the states it can leave
SkullUpdateResults(sys, t, capture) ==
    UNION { UNION { check_inactivity(ambient, t) : ambient \in AmbientSound(faced, t) } :
            faced \in HandleFace(sys, t, capture) }

----------------------------------------------------------------------------
(* The main loop of the skull.  The clock is kept at its value and the       *)
(* stored timestamps are moved back, as for the controller ticked for ever.  *)
(* No sound file is installed under AUDIO_BASE_PATH, so that the sounds that *)
(* are asked for are not queued; the audio device is open.                   *)

\* what the camera delivers at an update: it raises, or a frame without a
\* face, or a frame with one face
SkullCaptures ==
    { [raised |-> TRUE, faces |-> <<>>], [raised |-> FALSE, faces |-> <<>>],
      [raised |-> FALSE, faces |-> << <<610, 450, 30, 30>> >>] }

\* the timestamps of the SkullController seen from a clock t that has
\* advanced by step
OlderSkull(sk, step, t) ==
    [sk EXCEPT !.last_activity_time = Older(sk.last_activity_time, step, t, INACTIVITY_TIMEOUT),
               !.last_mode_check = Older(sk.last_mode_check, step, t, LAST_ACTIVITY_CHECK_INTERVAL),
               !.last_ambient_sound = Older(sk.last_ambient_sound, step, t, 30 * 1000000)]

\* SkullController.update(), the clock having advanced by step and the
\* camera delivering capture
SkullUpdate(step, capture) ==
    /\ (skull.current_mode # EYE_MODES.REST /\ ~capture.raised /\ capture.faces = <<>>)
          => tracker.frames_without_face < MaxFramesWithoutFace
    /\ \E older \in {[n \in EyeNames |-> OlderEye(eyes[n], step, now)]} :
       \E sys \in SkullUpdateResults(
                     [ skull |-> OlderSkull(skull, step, now), mode |-> mode, leds |-> leds,
                       audio |-> audio, tracker |-> tracker, face_position |-> NoTarget,
                       sounds |-> <<>> ], now, capture) :
          /\ UpdateBody(older, Older(last_blink_time, step, now, 0),
                        next_blink_time - step, now, sys.face_position, LiveRandom)
          /\ skull' = sys.skull
          /\ mode' = sys.mode
          /\ leds' = sys.leds
          /\ audio' = sys.audio
          /\ tracker' = sys.tracker
          /\ op' = <<"update", step, capture, sys.sounds>>
    /\ UNCHANGED <<now, eye>>

InitSkull == ConstructWith(LiveRandom, {}, TRUE)

\* SkullController.update is called at most MaxSkullTicks times.
MaxSkullTicks == 7

\* clock advances between two updates: half a second, five minutes
SkullSteps == {500000, 300000000}

TickSkull ==
    /\ ticks < MaxSkullTicks
    /\ ticks' = ticks + 1
    /\ \E step \in SkullSteps, capture \in SkullCaptures : SkullUpdate(step, capture)

NextSkull == TickSkull

SpecSkull == InitSkull /\ [][NextSkull]_vars

----------------------------------------------------------------------------
(* The main loop of the skull run for ever, five minutes from one update to  *)
(* the next.                                                                 *)

WakeSteps == {300000000}

TickWake ==
    /\ ticks' = ticks
    /\ \E step \in WakeSteps, capture \in SkullCaptures : SkullUpdate(step, capture)

NextWake == TickWake

\* SkullController.run calls update for ever (while True).
SpecWake == InitSkull /\ [][NextWake]_vars /\ WF_vars(TickWake)

----------------------------------------------------------------------------
(* The AudioManager, its playback thread and a thread that calls it, in any  *)
(* interleaving of their statements.                                         *)

\* at most MaxAudioQueue sounds wait in the queue
MaxAudioQueue == 2

\* a sound file holds up to MaxChunks blocks of 1024 frames
MaxChunks == 2

\* the caller calls play_sound(category)
AudioPlaySound ==
    \E category \in SoundCategories \cup {"party"} :
       /\ audio.caller = "idle"
       /\ Len(audio.audio_queue) < MaxAudioQueue
       /\ audio' \in play_sound(audio, category)
       /\ op' = <<"play_sound", category>>
       /\ UNCHANGED <<now, ctlVars, eye, tracker, skull, leds>>

\* the caller calls is_currently_playing()
AudioIsCurrentlyPlaying ==
    /\ audio.caller = "idle"
    /\ op' = <<"is_currently_playing", is_currently_playing(audio)>>
    /\ UNCHANGED <<now, ctlVars, eye, tracker, skull, leds, audio>>

\* the caller calls stop_all(), or runs its next statement
AudioStopAll ==
    /\ audio' = StopAllStep(audio)
    /\ op' = <<"stop_all">>
    /\ UNCHANGED <<now, ctlVars, eye, tracker, skull, leds>>

\* the playback thread runs its next statement
AudioWorker ==
    /\ audio' \in WorkerStep(audio, 0..MaxChunks)
    /\ UNCHANGED <<now, ctlVars, eye, op, tracker, skull, leds>>

NextAudio == AudioPlaySound \/ AudioIsCurrentlyPlaying \/ AudioStopAll \/ AudioWorker

InitAudio == \E device \in BOOLEAN : ConstructWith(CtlRandom, AllSounds, device)

SpecAudio == InitAudio /\ [][NextAudio]_vars

----------------------------------------------------------------------------
(* Properties of the blink state machine of one Eye (SpecBlink). *)

\* C1: under any sequence of start_blink and update_blink calls the blink
\* state changes only Open -> Closing (by start_blink), Closing -> Opening
\* (by update_blink) and Opening -> Open (by update_blink).
C1_BlinkTransitions ==
    [][ eye'.blink_state # eye.blink_state =>
          \/ /\ eye.blink_state = NOBLINK /\ eye'.blink_state = ENBLINK
             /\ EyeStartBlink /\ ~EyeUpdateBlink
          \/ /\ eye.blink_state = ENBLINK /\ eye'.blink_state = DEBLINK
             /\ EyeUpdateBlink /\ ~EyeStartBlink
          \/ /\ eye.blink_state = DEBLINK /\ eye'.blink_state = NOBLINK
             /\ EyeUpdateBlink /\ ~EyeStartBlink ]_vars

\* an eye that has gone round the whole cycle and has started its next blink
C1_Witness ==
    /\ eye.blink_state = ENBLINK
    /\ eye.blink_start_time >= ConstructTime + 3 * BLINK_MIN_DURATION
    /\ Len(op) = 2
    /\ op[1] = "update_blink"

\* C2: start_blink(now, duration) on a Closing or Opening eye leaves blink
\* state, start time and duration unchanged; on an Open eye it sets the state
\* to Closing with start = now and the given duration.
C2_StartBlink ==
    [][ \A duration \in EyeBlinkDurations :
          (EyeStartBlink /\ op' = <<"start_blink", now', duration>>) =>
             IF eye.blink_state = NOBLINK
             THEN /\ eye'.blink_state = ENBLINK
                  /\ eye'.blink_start_time = now'
                  /\ eye'.blink_duration = duration
             ELSE /\ eye'.blink_state = eye.blink_state
                  /\ eye'.blink_start_time = eye.blink_start_time
                  /\ eye'.blink_duration = eye.blink_duration ]_vars

\* start_blink has just been called, later and with another duration, on an
\* eye that is Opening
C2_Witness ==
    /\ Len(op) = 3
    /\ op[1] = "start_blink"
    /\ eye.blink_state = DEBLINK
    /\ op[2] > eye.blink_start_time
    /\ op[3] * 2 # eye.blink_duration

\* The blink factor f equals the ratio n / d.
IsRatio(f, n, d) == f[1] * d = n * f[2]

\* The profile of one update_blink(t) call on an eye that is blinking.
BlinkProfileStep ==
    LET t == now'
        dt == t - eye.blink_start_time
        d == eye.blink_duration
    IN  /\ (eye.blink_state = ENBLINK /\ dt < d) =>
              /\ eye'.blink_state = ENBLINK
              /\ eye'.blink_start_time = eye.blink_start_time
              /\ eye'.blink_duration = d
              /\ IsRatio(eye'.blink_factor, dt, d)
        /\ (eye.blink_state = ENBLINK /\ dt >= d) =>
              /\ eye'.blink_state = DEBLINK
              /\ eye'.blink_start_time = t
              /\ eye'.blink_duration = 2 * d
              /\ eye'.blink_factor = One
        /\ (eye.blink_state = DEBLINK /\ dt < d) =>
              /\ eye'.blink_state = DEBLINK
              /\ eye'.blink_start_time = eye.blink_start_time
              /\ eye'.blink_duration = d
              /\ IsRatio(eye'.blink_factor, d - dt, d)
        /\ (eye.blink_state = DEBLINK /\ dt >= d) =>
              /\ eye'.blink_state = NOBLINK
              /\ eye'.blink_factor = Zero

\* The scenario of the specification: a blink started at s with duration
\* 50000 and updated at s + 25000, s + 50000, s + 100000, s + 150000 shows the
\* factors 0.5, 1.0, 0.5, 0.0.
BlinkScenario ==
    LET s == eye.blink_start_time IN
    (Len(op) = 2 /\ op[1] = "update_blink") =>
       /\ (eye.blink_state = ENBLINK /\ eye.blink_duration = 50000 /\ now = s + 25000)
             => eye.blink_factor = <<1, 2>>
       /\ (eye.blink_state = DEBLINK /\ eye.blink_duration = 100000 /\ now = s)
             => eye.blink_factor = <<1, 1>>
       /\ (eye.blink_state = DEBLINK /\ eye.blink_duration = 100000 /\ now = s + 50000)
             => eye.blink_factor = <<1, 2>>
       /\ (eye.blink_state = NOBLINK /\ eye.blink_duration = 100000)
             => eye.blink_factor = <<0, 1>>

\* C3: a blink started at s with duration d follows the piecewise-linear
\* profile: while Closing and t - s < d the factor is (t - s) / d; on the
\* first update with t - s >= d the eye is Opening with duration 2d, start t
\* and factor 1; while Opening with start s' and t - s' < 2d the factor is
\* 1 - (t - s') / 2d; on the first update with t - s' >= 2d the eye is Open
\* with factor 0 (0.5, 1.0, 0.5, 0.0 for d = 50000 and updates at 25000,
\* 50000, 100000, 150000).
C3_BlinkProfile ==
    /\ [][EyeUpdateBlink => BlinkProfileStep]_vars
    /\ []BlinkScenario

\* the end of the scenario: Open again, with factor 0, on the update made
\* 100000 after the opening phase of a blink of duration 50000 began
C3_Witness ==
    /\ Len(op) = 2
    /\ op[1] = "update_blink"
    /\ eye.blink_state = NOBLINK
    /\ eye.blink_duration = 100000
    /\ now = eye.blink_start_time + 100000
    /\ eye.blink_factor = Zero

----------------------------------------------------------------------------
(* Properties of the controller (Spec). *)

\* a step is one EyeController.update call
IsTick == ticks' = ticks + 1

\* the start_blink calls among the calls c
StartsOf(c) == SelectSeq(c, LAMBDA x : x[1] = "start_blink")

\* the last update ran in rest mode: it made no motion call
RestTick(c) == c # <<>> /\ c[Len(c)][1] = "update_blink"

\* C4: at the end of every EyeController.update, for every eye, in every
\* mode, under any sequence of ticks and set_mode calls, blink_factor lies
\* in [0, 1].
C4_BlinkFactorRange ==
    \A n \in EyeNames :
       /\ 0 <= eyes[n].blink_factor[1]
       /\ eyes[n].blink_factor[1] <= eyes[n].blink_factor[2]

\* outside rest mode every eye is half way through its opening phase
C4_Witness ==
    /\ calls # <<>>
    /\ ~RestTick(calls)
    /\ \A n \in EyeNames :
          /\ eyes[n].blink_state = DEBLINK
          /\ FLt(Zero, eyes[n].blink_factor)
          /\ FLt(eyes[n].blink_factor, One)

\* C5 as claimed: under any sequence of ticks and set_mode calls the
\* blink_factor seen at the end of consecutive ticks is non-decreasing while
\* the eye stays Closing, non-increasing while it stays Opening, and exactly
\* 1.0 on the tick of the Closing -> Opening transition.
C5_Original ==
    [][ \A n \in EyeNames :
          /\ (eyes[n].blink_state = ENBLINK /\ eyes'[n].blink_state = ENBLINK)
                => FLe(eyes[n].blink_factor, eyes'[n].blink_factor)
          /\ (eyes[n].blink_state = DEBLINK /\ eyes'[n].blink_state = DEBLINK)
                => FLe(eyes'[n].blink_factor, eyes[n].blink_factor)
          /\ (eyes[n].blink_state = ENBLINK /\ eyes'[n].blink_state = DEBLINK)
                => eyes'[n].blink_factor = One ]_vars

\* C5 as amended: the blink_factor seen at the end of two consecutive ticks
\* that both ran in a mode other than rest is non-decreasing while the eye
\* stays Closing and non-increasing while it stays Opening; in every mode it
\* is exactly 1.0 on the tick of the Closing -> Opening transition.
C5_BlinkMonotone ==
    [][ \A n \in EyeNames :
          /\ (~RestTick(calls) /\ ~RestTick(calls')) =>
                /\ (eyes[n].blink_state = ENBLINK /\ eyes'[n].blink_state = ENBLINK)
                      => FLe(eyes[n].blink_factor, eyes'[n].blink_factor)
                /\ (eyes[n].blink_state = DEBLINK /\ eyes'[n].blink_state = DEBLINK)
                      => FLe(eyes'[n].blink_factor, eyes[n].blink_factor)
          /\ (eyes[n].blink_state = ENBLINK /\ eyes'[n].blink_state = DEBLINK)
                => eyes'[n].blink_factor = One ]_vars

\* outside rest mode, the second of two consecutive ticks that found the eyes
\* part of the way through their opening phase
C5_Witness ==
    /\ ~RestTick(calls)
    /\ \A n \in EyeNames :
          /\ eyes[n].blink_state = DEBLINK
          /\ eyes[n].blink_start_time = now - 50000
          /\ eyes[n].blink_factor = <<11, 36>>

\* C6: on a tick with now >= next_blink_time the controller draws one
\* duration d in [BLINK_MIN_DURATION, BLINK_MAX_DURATION] and invokes
\* start_blink(now, d) on all three eyes with that same pair (so every Open
\* eye is Closing with start now and duration d at the end of the tick); on a
\* tick with now < next_blink_time it invokes no start_blink.
C6_SynchronizedStart ==
    [][ IsTick =>
          LET starts == StartsOf(calls') IN
          IF now' >= next_blink_time
          THEN /\ Len(starts) = 3
               /\ {starts[i][2] : i \in 1..3} = EyeNames
               /\ starts[1][4] \in BLINK_MIN_DURATION..BLINK_MAX_DURATION
               /\ \A i \in 1..3 : starts[i][3] = now' /\ starts[i][4] = starts[1][4]
               /\ \A n \in EyeNames :
                     eyes[n].blink_state = NOBLINK =>
                        /\ eyes'[n].blink_state = ENBLINK
                        /\ eyes'[n].blink_start_time = now'
                        /\ eyes'[n].blink_duration = starts[1][4]
          ELSE /\ starts = <<>>
               /\ \A n \in EyeNames :
                     eyes[n].blink_state = NOBLINK => eyes'[n].blink_state = NOBLINK
      ]_vars

\* the scheduler has fired on this tick and every eye has started to close
C6_Witness ==
    /\ Len(StartsOf(calls)) = 3
    /\ \A n \in EyeNames :
          /\ eyes[n].blink_state = ENBLINK
          /\ eyes[n].blink_start_time = now
          /\ eyes[n].blink_duration = BLINK_MAX_DURATION

\* C7: after the scheduler fires at time t with duration d, next_blink_time
\* lies in [t + 3d + BLINK_INTERVAL_MIN, t + 3d + 2 * BLINK_INTERVAL_MIN]; a
\* firing is at least BLINK_INTERVAL_MIN after the previous one (after the
\* construction, for the first), the time of which is last_blink_time.
C7_Reschedule ==
    [][ IsTick =>
          IF now' >= next_blink_time
          THEN LET d == StartsOf(calls')[1][4] IN
               /\ next_blink_time' >= now' + 3 * d + BLINK_INTERVAL_MIN
               /\ next_blink_time' <= now' + 3 * d + 2 * BLINK_INTERVAL_MIN
               /\ now' - last_blink_time >= BLINK_INTERVAL_MIN
               /\ last_blink_time' = now'
          ELSE UNCHANGED <<last_blink_time, next_blink_time>> ]_vars

\* the scheduler has fired for the second time
C7_Witness ==
    /\ Len(StartsOf(calls)) = 3
    /\ last_blink_time = now
    /\ now >= ConstructTime + 2 * BLINK_INTERVAL_MIN
    /\ next_blink_time = now + 3 * BLINK_MIN_DURATION + 2 * BLINK_INTERVAL_MIN

\* C8: if ticks continue for ever with strictly advancing time then, in every
\* mode, every eye that is Closing or Opening eventually is Open again, and
\* every eye is Closing infinitely often.
C8_BlinkCycleLive ==
    \A n \in EyeNames :
       /\ (eyes[n].blink_state \in {ENBLINK, DEBLINK}) ~> (eyes[n].blink_state = NOBLINK)
       /\ []<>(eyes[n].blink_state = ENBLINK)

\* in rest mode, the eyes are part of the way through the opening phase of a
\* blink that began after an earlier blink had completed
C8_Witness ==
    /\ mode = EYE_MODES.REST
    /\ RestTick(calls)
    /\ \A n \in EyeNames :
          /\ eyes[n].blink_state = DEBLINK
          /\ eyes[n].blink_start_time = now - 2 * 36000
          /\ eyes[n].blink_duration = 2 * BLINK_MAX_DURATION

\* the fields of an Eye that the motion updates read and write
MotionPart(e) ==
    [ eye_x |-> e.eye_x, eye_y |-> e.eye_y, in_motion |-> e.in_motion,
      move_start_time |-> e.move_start_time, move_duration |-> e.move_duration,
      old_x |-> e.old_x, old_y |-> e.old_y, new_x |-> e.new_x, new_y |-> e.new_y,
      last_saccade_stop |-> e.last_saccade_stop,
      saccade_interval |-> e.saccade_interval ]

\* the motion calls made on eye n among the calls c
MotionCallsOn(c, n) ==
    SelectSeq(c, LAMBDA x : x[1] \in {"update_tracking", "update_autonomous"} /\ x[2] = n)

\* eye n was updated by update_autonomous(t), and by nothing else, in this step
UpdatedAutonomously(n, t) ==
    /\ MotionCallsOn(calls', n) = << <<"update_autonomous", n, t>> >>
    /\ MotionPart(eyes'[n]) \in
          {MotionPart(x) : x \in update_autonomous(eyes[n], t, CtlRandom)}

\* eye n was updated by update_tracking(target), and by nothing else, in this step
UpdatedByTracking(n, target) ==
    /\ MotionCallsOn(calls', n) = << <<"update_tracking", n, target[1], target[2]>> >>
    /\ MotionPart(eyes'[n]) = MotionPart(update_tracking(eyes[n], target[1], target[2]))

\* C9: in tracking mode, on every tick, the middle eye is updated by
\* update_tracking if and only if a target is present and by update_autonomous
\* otherwise; the left and right eyes are updated by update_autonomous whether
\* or not a target is present.
C9_TrackingDispatch ==
    [][ \A face_position \in Targets :
          ( /\ mode = EYE_MODES.TRACKING
            /\ \E step \in TickSteps : Update(step, face_position) ) =>
             /\ IF face_position # NoTarget
                THEN UpdatedByTracking("middle", face_position)
                ELSE UpdatedAutonomously("middle", now')
             /\ UpdatedAutonomously("left", now')
             /\ UpdatedAutonomously("right", now') ]_vars

\* in tracking mode with a target, the middle eye has been set on the target
\* while the left and right eyes are in the middle of a saccade of their own
C9_Witness ==
    /\ mode = EYE_MODES.TRACKING
    /\ Len(MotionCallsOn(calls, "middle")) = 1
    /\ MotionCallsOn(calls, "middle")[1][1] = "update_tracking"
    /\ eyes["middle"].eye_x = <<108, 1>>
    /\ ~eyes["middle"].in_motion
    /\ eyes["left"].in_motion /\ eyes["right"].in_motion
    /\ eyes["left"].eye_x # eyes["left"].old_x
    /\ eyes["left"].eye_x # eyes["left"].new_x

\* C10: in tracking mode with a target (tx, ty), at the end of the tick the
\* position of the middle eye is exactly (tx * 0.9 * DISPLAY_SIZE,
\* ty * 0.9 * DISPLAY_SIZE), whatever its position and motion state were
\* ((0.45 * DISPLAY_SIZE, -0.45 * DISPLAY_SIZE) = (108, -108) for (0.5, -0.5)).
C10_TrackingPosition ==
    [][ \A face_position \in Targets \ {NoTarget} :
          ( /\ mode = EYE_MODES.TRACKING
            /\ \E step \in TickSteps : Update(step, face_position) ) =>
             LET tx == face_position[1]
                 ty == face_position[2]
                 mid == eyes'["middle"]
             IN  /\ IsRatio(mid.eye_x, tx[1] * 9 * DISPLAY_SIZE, tx[2] * 10)
                 /\ IsRatio(mid.eye_y, ty[1] * 9 * DISPLAY_SIZE, ty[2] * 10)
                 /\ (tx = <<1, 2>> /\ ty = <<-1, 2>>) =>
                       /\ IsRatio(mid.eye_x, 45 * DISPLAY_SIZE, 100)
                       /\ IsRatio(mid.eye_y, -45 * DISPLAY_SIZE, 100)
                       /\ mid.eye_x = <<108, 1>> /\ mid.eye_y = <<-108, 1>> ]_vars

\* the middle eye, caught in the middle of a saccade towards (108, 144), has
\* been set on the target (0.5, -0.5)
C10_Witness ==
    /\ mode = EYE_MODES.TRACKING
    /\ Len(MotionCallsOn(calls, "middle")) = 1
    /\ MotionCallsOn(calls, "middle")[1] = <<"update_tracking", "middle", <<1, 2>>, <<-1, 2>> >>
    /\ eyes["middle"].in_motion
    /\ eyes["middle"].new_x = <<108, 1>> /\ eyes["middle"].new_y = <<144, 1>>
    /\ eyes["middle"].eye_x = <<108, 1>> /\ eyes["middle"].eye_y = <<-108, 1>>

\* C11: in wandering mode the target has no influence: from the same state,
\* at the same clock value and with the same random draws, ticks given
\* different targets (or none) leave the same state of every eye and the same
\* blink schedule, and make the same calls.
C11_WanderingIgnoresTarget ==
    [][ (IsTick /\ mode = EYE_MODES.WANDERING) =>
          \A sched \in Schedule(now', last_blink_time, next_blink_time, CtlRandom) :
             (next_blink_time' = sched.next /\ last_blink_time' = sched.last) =>
                \A face_position \in Targets :
                   /\ UpdateResults(eyes, mode, now', face_position, CtlRandom, sched)
                         = {eyes'}
                   /\ calls' = StartCalls(now', sched) \o BlinkCalls(now')
                                  \o MotionCalls(mode, face_position, now') ]_vars

\* in wandering mode the scheduler has fired and the three eyes, the middle
\* one included, are part of the way through a saccade
C11_Witness ==
    /\ mode = EYE_MODES.WANDERING
    /\ Len(StartsOf(calls)) = 3
    /\ MotionCallsOn(calls, "middle") = << <<"update_autonomous", "middle", now>> >>
    /\ \A n \in EyeNames :
          /\ eyes[n].in_motion
          /\ eyes[n].eye_x # eyes[n].old_x
          /\ eyes[n].eye_x # eyes[n].new_x
          /\ eyes[n].blink_state = ENBLINK

\* C12: while the mode is rest no tick changes the motion state of an eye:
\* position, old, new, moving flag, move start time, move duration,
\* saccade_interval and last_saccade_stop are left unchanged.
C12_RestFreezesMotion ==
    [][ (IsTick /\ mode = EYE_MODES.REST) =>
          \A n \in EyeNames : MotionPart(eyes'[n]) = MotionPart(eyes[n]) ]_vars

\* a tick in rest mode has left the eyes in the middle of a saccade that
\* update_autonomous would have completed
C12_Witness ==
    /\ mode = EYE_MODES.REST
    /\ RestTick(calls)
    /\ \A n \in EyeNames :
          /\ eyes[n].in_motion
          /\ now - eyes[n].move_start_time >= eyes[n].move_duration
          /\ eyes[n].eye_x # eyes[n].new_x

\* C13: at the end of every tick taken in rest mode the blink_factor of every
\* eye is exactly 1.0, whatever its blink state and elapsed blink time.
C13_RestClosesEyes ==
    [][ (IsTick /\ mode = EYE_MODES.REST) =>
          \A n \in EyeNames : eyes'[n].blink_factor = One ]_vars

\* a tick in rest mode has found the eyes part of the way through their
\* opening phase, where update_blink gives a factor below 1
C13_Witness ==
    /\ mode = EYE_MODES.REST
    /\ RestTick(calls)
    /\ \A n \in EyeNames :
          /\ eyes[n].blink_state = DEBLINK
          /\ now > eyes[n].blink_start_time
          /\ now - eyes[n].blink_start_time < eyes[n].blink_duration
          /\ update_blink(eyes[n], now).blink_factor # One
          /\ eyes[n].blink_factor = One

\* the blink state, start and duration of an Eye
BlinkPart(e) ==
    [ blink_state |-> e.blink_state, blink_start_time |-> e.blink_start_time,
      blink_duration |-> e.blink_duration ]

\* C14: the blink state machine advances independently of the mode: from the
\* same state, at the same clock value and with the same draws, a tick leaves
\* the same blink state, start and duration of every eye and the same
\* next_blink_time in tracking, wandering and rest mode (with or without a
\* target): those that update_blink leaves, which the rest override does not
\* change.
C14_BlinkIgnoresMode ==
    [][ IsTick =>
          \A sched \in Schedule(now', last_blink_time, next_blink_time, CtlRandom) :
             (next_blink_time' = sched.next /\ last_blink_time' = sched.last) =>
                \A m \in EyeModeValues, face_position \in Targets :
                   \A es \in UpdateResults(eyes, m, now', face_position, CtlRandom, sched) :
                      \A n \in EyeNames :
                         /\ BlinkPart(es[n]) = BlinkPart(eyes'[n])
                         /\ BlinkPart(es[n]) =
                              BlinkPart(update_blink(
                                 IF sched.fired
                                 THEN start_blink(eyes[n], now', sched.duration)
                                 ELSE eyes[n], now')) ]_vars

\* a tick in rest mode on which the eyes have gone from Closing to Opening
C14_Witness ==
    /\ mode = EYE_MODES.REST
    /\ RestTick(calls)
    /\ \A n \in EyeNames :
          /\ eyes[n].blink_state = DEBLINK
          /\ eyes[n].blink_start_time = now
          /\ eyes[n].blink_duration = 2 * BLINK_MIN_DURATION

----------------------------------------------------------------------------
(* Properties of the mode (SpecMode, Spec). *)

\* C15: set_mode called with a value that is not tracking, wandering or rest
\* leaves the mode and all eye and scheduler state unchanged; called with one
\* of the three it sets the mode to exactly that value (and leaves the eyes
\* and the scheduler unchanged).
C15_SetMode ==
    [][ \A m \in ModeArgs :
          (SetModeCall /\ op'[2] = m) =>
             /\ IF m \in {"tracking", "wandering", "rest"}
                THEN mode' = m
                ELSE mode' = mode
             /\ UNCHANGED <<eyes, last_blink_time, next_blink_time>> ]_vars

\* set_mode has just been called with an invalid value on a controller that
\* had been put in wandering mode and ticked there, its eyes blinking
C15_Witness ==
    /\ Len(op) = 3
    /\ op[1] = "set_mode"
    /\ op[2] \notin EyeModeValues
    /\ mode = EYE_MODES.WANDERING
    /\ MotionCallsOn(calls, "left") # <<>>
    /\ eyes["left"].blink_state = ENBLINK

\* C16: the value set_mode returns for a rejected (invalid) mode differs from
\* the value it returns for an accepted (valid) mode.
C16_RejectionReturned ==
    [][ \A bad \in ModeArgs \ EyeModeValues, good \in EyeModeValues :
          (SetModeCall /\ op'[2] = bad) =>
             op'[3] # set_mode(mode, good).returns ]_vars

\* C17: the mode is always one of tracking, wandering and rest, and it changes
\* only inside set_mode: no EyeController.update changes it, whatever the
\* state of the eyes and the target are.
C17_ModeOnlyBySetMode ==
    /\ [](mode \in {"tracking", "wandering", "rest"})
    /\ [][ /\ IsTick => mode' = mode
           /\ mode' # mode => (SetMode /\ ~IsTick) ]_vars

\* in rest mode, entered by set_mode, a second or later tick has run while the
\* eyes were blinking
C17_Witness ==
    /\ mode = EYE_MODES.REST
    /\ RestTick(calls)
    /\ ticks >= 2
    /\ \A n \in EyeNames : eyes[n].blink_state = DEBLINK

----------------------------------------------------------------------------
(* Properties of the motion of the eyes (Spec, SpecMotion). *)

\* C18: for every eye, in every state reached by any sequence of ticks in any
\* mode with any targets: whenever the moving flag is false, the position
\* (eye_x, eye_y) equals (old_x, old_y).
C18_StoppedAtOld ==
    \A n \in EyeNames :
       ~eyes[n].in_motion =>
          (eyes[n].eye_x = eyes[n].old_x /\ eyes[n].eye_y = eyes[n].old_y)

\* the progress e = (t - start_time) / duration of the move of eye x at clock
\* value t, and its easing 3e^2 - 2e^3
Progress(x, t) == Frac(t - x.move_start_time, x.move_duration)

Eased(x, t) ==
    LET q == Progress(x, t)
    IN  FSub(FMul(FInt(3), FMul(q, q)), FMul(FInt(2), FMul(q, FMul(q, q))))

\* C19: after every update_autonomous(now) call that leaves the eye moving,
\* the move duration is > 0, the progress e = (now - start_time) / duration
\* satisfies 0 <= e < 1, the position is old + (new - old) * (3e^2 - 2e^3),
\* and over the successive calls of one move the eased progress is
\* non-decreasing, from 0 on the call that starts the move and below 1.
C19_EasedMove ==
    [][ (EyeUpdateAutonomous /\ eye'.in_motion) =>
          /\ eye'.move_duration > 0
          /\ 0 <= now' - eye'.move_start_time
          /\ now' - eye'.move_start_time < eye'.move_duration
          /\ FLe(Zero, Progress(eye', now')) /\ FLt(Progress(eye', now'), One)
          /\ eye'.eye_x = FAdd(eye'.old_x,
                                FMul(FSub(eye'.new_x, eye'.old_x), Eased(eye', now')))
          /\ eye'.eye_y = FAdd(eye'.old_y,
                                FMul(FSub(eye'.new_y, eye'.old_y), Eased(eye', now')))
          /\ FLe(Zero, Eased(eye', now')) /\ FLt(Eased(eye', now'), One)
          /\ IF eye.in_motion
             THEN /\ eye'.move_start_time = eye.move_start_time
                  /\ eye'.move_duration = eye.move_duration
                  /\ FLe(Eased(eye, now), Eased(eye', now'))
             ELSE /\ eye'.move_start_time = now'
                  /\ Eased(eye', now') = Zero ]_vars

\* the third call in a row that finds a major saccade under way, three
\* quarters of its duration elapsed
C19_Witness ==
    /\ Len(op) = 2
    /\ op[1] = "update_autonomous"
    /\ eye.in_motion
    /\ eye.move_duration = 100000
    /\ now = eye.move_start_time + 75000
    /\ eye.new_x = <<108, 1>>
    /\ eye.eye_x = <<729, 8>>

\* C20: on the update_autonomous(now) call where a moving eye has
\* now - start_time >= duration: position = old = new, the moving flag becomes
\* false, a hold duration h in [35000, min(1000000, GAZE_MAX)] is drawn and
\* the hold starts at now; if no saccade interval was pending
\* (saccade_interval = 0) one is drawn in [h, GAZE_MAX] and last_saccade_stop
\* is set to now, otherwise both are left unchanged.
C20_MoveCompletion ==
    [][ ( /\ EyeUpdateAutonomous
          /\ eye.in_motion
          /\ now' - eye.move_start_time >= eye.move_duration ) =>
          /\ eye'.eye_x = eye.new_x /\ eye'.eye_y = eye.new_y
          /\ eye'.old_x = eye.new_x /\ eye'.old_y = eye.new_y
          /\ eye'.new_x = eye.new_x /\ eye'.new_y = eye.new_y
          /\ ~eye'.in_motion
          /\ 35000 <= eye'.move_duration
          /\ eye'.move_duration <= 1000000 /\ eye'.move_duration <= GAZE_MAX
          /\ eye'.move_start_time = now'
          /\ IF eye.saccade_interval = 0
             THEN /\ eye'.move_duration <= eye'.saccade_interval
                  /\ eye'.saccade_interval <= GAZE_MAX
                  /\ eye'.last_saccade_stop = now'
             ELSE /\ eye'.saccade_interval = eye.saccade_interval
                  /\ eye'.last_saccade_stop = eye.last_saccade_stop ]_vars

\* a microsaccade has just completed while the saccade interval drawn at the
\* end of the major saccade before it was still pending
C20_Witness ==
    /\ Len(op) = 2
    /\ op[1] = "update_autonomous"
    /\ ~eye.in_motion
    /\ eye.move_start_time = now
    /\ eye.move_duration = 35000
    /\ eye.saccade_interval = GAZE_MAX
    /\ eye.last_saccade_stop < now
    /\ eye.old_x = eye.new_x /\ eye.eye_x = eye.new_x
    /\ eye.new_x # <<108, 1>> /\ eye.new_x # <<-180, 1>>

\* C21: on update_autonomous(now) of an idle eye whose hold has elapsed
\* (now - start_time > duration), a major saccade is started if
\* now - last_saccade_stop exceeds the pending saccade_interval and a
\* microsaccade otherwise; in both cases moving becomes true and
\* start_time = now; a major saccade draws its duration in
\* [SACCADE_MIN_DURATION, SACCADE_MAX_DURATION] and clears the pending interval
\* to 0, a microsaccade draws its duration in [MICROSACCADE_MIN_DURATION,
\* MICROSACCADE_MAX_DURATION] and leaves saccade_interval and
\* last_saccade_stop unchanged; while the hold has not elapsed nothing but
\* the assignment position = old happens.
C21_IdleStart ==
    [][ (EyeUpdateAutonomous /\ ~eye.in_motion) =>
          IF now' - eye.move_start_time > eye.move_duration
          THEN /\ eye'.in_motion
               /\ eye'.move_start_time = now'
               /\ IF now' - eye.last_saccade_stop > eye.saccade_interval
                  THEN /\ SACCADE_MIN_DURATION <= eye'.move_duration
                       /\ eye'.move_duration <= SACCADE_MAX_DURATION
                       /\ eye'.saccade_interval = 0
                  ELSE /\ MICROSACCADE_MIN_DURATION <= eye'.move_duration
                       /\ eye'.move_duration <= MICROSACCADE_MAX_DURATION
                       /\ eye'.saccade_interval = eye.saccade_interval
                       /\ eye'.last_saccade_stop = eye.last_saccade_stop
          ELSE eye' = [eye EXCEPT !.eye_x = eye.old_x, !.eye_y = eye.old_y] ]_vars

\* a microsaccade has just been started at the end of a hold, the saccade
\* interval drawn at the end of an earlier move still pending
C21_Witness ==
    /\ Len(op) = 2
    /\ op[1] = "update_autonomous"
    /\ eye.in_motion
    /\ eye.move_start_time = now
    /\ eye.move_duration = MICROSACCADE_MAX_DURATION
    /\ eye.saccade_interval = GAZE_MAX
    /\ eye.last_saccade_stop > ConstructTime
    /\ now - eye.last_saccade_stop > 35000

\* the square of the Euclidean norm of (x, y)
Norm2(x, y) == FAdd(FMul(x, x), FMul(y, y))

\* C22: for every major saccade started by update_autonomous the target
\* (new_x, new_y) satisfies new_x^2 + new_y^2 <= (0.75 * DISPLAY_SIZE)^2: it
\* lies in the disk of radius 0.75 * DISPLAY_SIZE centred at the origin; and
\* the argument r^2 - new_x^2 of the square root is not negative.
C22_SaccadeInDisk ==
    [][ ( /\ EyeUpdateAutonomous
          /\ ~eye.in_motion /\ eye'.in_motion
          /\ now' - eye.last_saccade_stop > eye.saccade_interval ) =>
          LET r == Frac(DISPLAY_SIZE * 75, 100) IN
          /\ FLe(Norm2(eye'.new_x, eye'.new_y), FMul(r, r))
          /\ FLe(Zero, FSub(FMul(r, r), FMul(eye'.new_x, eye'.new_x))) ]_vars

\* a major saccade has just been started from the end point of a microsaccade
\* towards (108, 144), a point of the circle of radius 180
C22_Witness ==
    /\ Len(op) = 2
    /\ op[1] = "update_autonomous"
    /\ eye.in_motion
    /\ eye.move_start_time = now
    /\ eye.move_duration = 150000
    /\ eye.saccade_interval = 0
    /\ eye.old_x # Zero
    /\ eye.new_x = <<108, 1>> /\ eye.new_y = <<144, 1>>
    /\ Norm2(eye.new_x, eye.new_y) = <<180 * 180, 1>>

\* C23: for every microsaccade started by update_autonomous the target
\* satisfies |new - old| <= 0.07 * DISPLAY_SIZE (Euclidean distance), old
\* being the old position of the eye at the moment the microsaccade starts.
C23_MicrosaccadeNearOld ==
    [][ ( /\ EyeUpdateAutonomous
          /\ ~eye.in_motion /\ eye'.in_motion
          /\ ~(now' - eye.last_saccade_stop > eye.saccade_interval) ) =>
          LET r == Frac(DISPLAY_SIZE * 7, 100) IN
          /\ eye'.old_x = eye.old_x /\ eye'.old_y = eye.old_y
          /\ FLe(Norm2(FSub(eye'.new_x, eye.old_x), FSub(eye'.new_y, eye.old_y)),
                 FMul(r, r)) ]_vars

\* a microsaccade has just been started from the end point (108, 144) of a
\* major saccade, its offset (252/25, 336/25) on the circle of radius 84/5
C23_Witness ==
    /\ Len(op) = 2
    /\ op[1] = "update_autonomous"
    /\ eye.in_motion
    /\ eye.move_start_time = now
    /\ eye.move_duration = MICROSACCADE_MIN_DURATION
    /\ eye.old_x = <<108, 1>> /\ eye.old_y = <<144, 1>>
    /\ FSub(eye.new_x, eye.old_x) = <<252, 25>>
    /\ FSub(eye.new_y, eye.old_y) = <<336, 25>>
    /\ Norm2(FSub(eye.new_x, eye.old_x), FSub(eye.new_y, eye.old_y)) = <<7056, 25>>

\* C24: for an eye updated by update_autonomous on every tick, the time from
\* the tick on which a major saccade completes to the tick on which the next
\* major saccade starts never exceeds GAZE_MAX.  (On the ticks of SpecGaze a
\* saccade interval is pending exactly from the completion of a major
\* saccade, whose tick last_saccade_stop records, to the start of the next.)
C24_GazeWithinMax ==
    [][ ( /\ EyeWander
          /\ ~eye.in_motion /\ eye'.in_motion
          /\ eye.saccade_interval # 0
          /\ eye'.saccade_interval = 0 ) =>
          now' - eye.last_saccade_stop <= GAZE_MAX ]_vars

\* C25: in tracking mode, when a tick with a target is followed by a tick
\* without one, the position of the middle eye does not jump: at the end of
\* the target-less tick its position is the last tracked position, or the eye
\* has begun a move whose starting point (old) is the last tracked position.
C25_NoJumpOnTargetLoss ==
    [][ ( /\ mode = EYE_MODES.TRACKING
          /\ \E step \in TickSteps : Update(step, NoTarget)
          /\ Len(MotionCallsOn(calls, "middle")) = 1
          /\ MotionCallsOn(calls, "middle")[1][1] = "update_tracking" ) =>
          LET tracked == eyes["middle"]
              mid == eyes'["middle"]
          IN  \/ mid.eye_x = tracked.eye_x /\ mid.eye_y = tracked.eye_y
              \/ /\ mid.in_motion
                 /\ mid.old_x = tracked.eye_x /\ mid.old_y = tracked.eye_y ]_vars

----------------------------------------------------------------------------
(* Properties of the face tracker (SpecFace). *)

\* C26: every value other than None returned by detect_faces, after any
\* sequence of frames with and without faces, is a pair whose two components
\* both lie in [-1.0, 1.0]; so is the remembered last position returned
\* during frames without a face.
C26_TargetInRange ==
    (Len(op) = 3 /\ op[1] = "detect_faces" /\ op[3] # NoTarget) =>
       /\ Len(op[3]) = 2
       /\ \A i \in 1..2 : FLe(FNeg(One), op[3][i]) /\ FLe(op[3][i], One)
       /\ op[2].faces = <<>> => op[3] = tracker.last_face_position

\* the remembered position of a face in the bottom right corner has been
\* returned for the 29th frame without a face in a row
C26_Witness ==
    /\ Len(op) = 3
    /\ op[1] = "detect_faces"
    /\ ~op[2].raised /\ op[2].faces = <<>>
    /\ tracker.frames_without_face = 29
    /\ op[3] = << <<61, 64>>, <<15, 16>> >>

----------------------------------------------------------------------------
(* Properties of the easing (SpecEase). *)

\* the part of the way from old to new that the rendered position of the eye
\* x has covered (new_x # old_x)
Covered(x) == FDiv(FSub(x.eye_x, x.old_x), FSub(x.new_x, x.old_x))

\* 3 * q * q
ThreeSquares(q) == FMul(FInt(3), FMul(q, q))

\* C27: during a move the rendered position is a continuous function of the
\* elapsed time with zero first derivative at the start (e = 0) and at the end
\* (e = 1) of the move window.  On the ticks of the clock: the position is old
\* on the tick that starts the move and new on the tick that completes it;
\* at progress e the part of the way covered is at most 3e^2 and the part
\* left is at most 3(1 - e)^2 (the difference quotients at the two ends are
\* at most 3e and 3(1 - e) and vanish with them); and between two ticks of a
\* move the part covered changes by at most 3/2 of the change of e.
C27_SmoothMove ==
    [][ EyeGlide =>
          /\ (~eye.in_motion /\ eye'.in_motion) =>
                /\ eye'.eye_x = eye.eye_x /\ eye'.eye_y = eye.eye_y
                /\ eye'.eye_x = eye'.old_x /\ eye'.eye_y = eye'.old_y
                /\ Covered(eye') = Zero
          /\ eye'.in_motion =>
                LET e == Progress(eye', now') IN
                /\ FLe(Zero, Covered(eye'))
                /\ FLe(Covered(eye'), ThreeSquares(e))
                /\ FLe(Covered(eye'), One)
                /\ FLe(FSub(One, Covered(eye')), ThreeSquares(FSub(One, e)))
          /\ (eye.in_motion /\ eye'.in_motion) =>
                FLe(Covered(eye'),
                    FAdd(Covered(eye),
                         FMul(<<3, 2>>, FSub(Progress(eye', now'), Progress(eye, now)))))
          /\ (eye.in_motion /\ ~eye'.in_motion) =>
                /\ eye'.eye_x = eye.new_x /\ eye'.eye_y = eye.new_y
                /\ FLe(FSub(One, Covered(eye)), ThreeSquares(FSub(One, Progress(eye, now))))
                /\ FLe(One,
                       FAdd(Covered(eye),
                            FMul(<<3, 2>>, FSub(One, Progress(eye, now))))) ]_vars

\* the last tick before the end of a major saccade of duration 125000: 24/25
\* of the time elapsed, 15552/15625 of the way covered
C27_Witness ==
    /\ Len(op) = 2
    /\ op[1] = "update_autonomous"
    /\ eye.in_motion
    /\ eye.move_duration = 125000
    /\ now = eye.move_start_time + 120000
    /\ Covered(eye) = <<15552, 15625>>

----------------------------------------------------------------------------
(* Properties of the structure of a tick (Spec). *)

\* C28: within one EyeController.update the steps run in the order scheduler,
\* blink progression of every eye, motion dispatch; next_blink_time is read
\* and changed at most once per tick, in the scheduler step before any eye
\* update, and no Eye method (start_blink, update_blink, update_autonomous,
\* update_tracking) modifies it: it keeps the value the scheduler computes
\* from its value at the start of the tick, and changes on no other step.
C28_TickOrder ==
    [][ /\ IsTick =>
             LET c == calls'
                 fired == now' >= next_blink_time
                 k == IF fired THEN Len(EyeOrder) ELSE 0
             IN  /\ Len(c) >= k + Len(EyeOrder)
                 /\ \A i \in 1..Len(c) :
                       c[i][1] = IF i <= k THEN "start_blink"
                                 ELSE IF i <= k + Len(EyeOrder) THEN "update_blink"
                                 ELSE IF c[i][1] = "update_tracking" THEN "update_tracking"
                                 ELSE "update_autonomous"
                 /\ {c[i][2] : i \in 1..k} = IF fired THEN EyeNames ELSE {}
                 /\ {c[i][2] : i \in (k + 1)..(k + Len(EyeOrder))} = EyeNames
                 /\ next_blink_time' \in
                       {sched.next : sched \in Schedule(now', last_blink_time,
                                                        next_blink_time, CtlRandom)}
                 /\ ~fired => next_blink_time' = next_blink_time
                 /\ fired =>
                       \A n \in EyeNames :
                          eyes[n].blink_state = NOBLINK =>
                             /\ eyes'[n].blink_state = ENBLINK
                             /\ eyes'[n].blink_start_time = now'
                             /\ next_blink_time' >=
                                   now' + 3 * eyes'[n].blink_duration + BLINK_INTERVAL_MIN
                             /\ mode # EYE_MODES.REST => eyes'[n].blink_factor = Zero
        /\ next_blink_time' # next_blink_time => (IsTick /\ now' >= next_blink_time) ]_vars

\* a tick in tracking mode with a target on which the scheduler fired: three
\* start_blink calls, three update_blink calls, then the motion calls, the
\* eyes Closing with factor 0 and the next blink scheduled
C28_Witness ==
    /\ mode = EYE_MODES.TRACKING
    /\ Len(calls) = 9
    /\ calls[1][1] = "start_blink" /\ calls[4][1] = "update_blink"
    /\ calls[7][1] = "update_tracking" /\ calls[9][1] = "update_autonomous"
    /\ last_blink_time = now
    /\ next_blink_time = now + 3 * BLINK_MAX_DURATION + BLINK_INTERVAL_MIN
    /\ \A n \in EyeNames :
          /\ eyes[n].blink_state = ENBLINK
          /\ eyes[n].blink_start_time = now
          /\ eyes[n].blink_factor = Zero

\* C29: update_tracking changes only the position (eye_x, eye_y) of the eye:
\* old, new, the moving flag, move start time, move duration,
\* saccade_interval, last_saccade_stop and the blink fields are left
\* unchanged.  On a tick of tracking mode with a target the middle eye is the
\* eye that the blink step of the tick leaves, with another position: its
\* saccade and hold state is frozen for as long as it is tracked.
C29_TrackingFrame ==
    [][ \A face_position \in Targets \ {NoTarget} :
          ( /\ mode = EYE_MODES.TRACKING
            /\ \E step \in TickSteps : Update(step, face_position) ) =>
             LET before == eyes["middle"]
                 after == eyes'["middle"]
             IN  /\ [MotionPart(after) EXCEPT !.eye_x = before.eye_x,
                                               !.eye_y = before.eye_y]
                       = MotionPart(before)
                 /\ \E sched \in Schedule(now', last_blink_time, next_blink_time, CtlRandom) :
                       after = [update_blink(IF sched.fired
                                             THEN start_blink(before, now', sched.duration)
                                             ELSE before, now')
                                  EXCEPT !.eye_x = after.eye_x, !.eye_y = after.eye_y] ]_vars

\* the middle eye has been tracked on a tick on which update_autonomous would
\* have completed its saccade: it is still marked as moving towards its
\* target, its move not advanced
C29_Witness ==
    /\ mode = EYE_MODES.TRACKING
    /\ MotionCallsOn(calls, "middle")
          = << <<"update_tracking", "middle", <<1, 2>>, <<-1, 2>> >> >>
    /\ eyes["middle"].in_motion
    /\ now - eyes["middle"].move_start_time >= eyes["middle"].move_duration
    /\ eyes["middle"].old_x # eyes["middle"].new_x
    /\ eyes["middle"].eye_x = <<108, 1>> /\ eyes["middle"].eye_y = <<-108, 1>>
    /\ eyes["middle"].blink_state # NOBLINK

\* the target that the calls c of a tick show to have been given to it
\* (NoTarget when none was used)
TargetOf(c) ==
    IF \E i \in 1..Len(c) : c[i][1] = "update_tracking"
    THEN LET i == CHOOSE i \in 1..Len(c) : c[i][1] = "update_tracking"
         IN  <<c[i][3], c[i][4]>>
    ELSE NoTarget

\* C30: within one tick the order in which the eyes are updated is
\* irrelevant: start_blink, update_blink, update_autonomous and
\* update_tracking read and write the fields of their own eye only, so
\* updating the eyes in any permutation yields the same set of possible
\* resulting states for every eye (the set the tick taken draws from).
C30_EyeOrderIrrelevant ==
    [][ IsTick =>
          \A sched \in Schedule(now', last_blink_time, next_blink_time, CtlRandom) :
             (next_blink_time' = sched.next /\ last_blink_time' = sched.last) =>
                \A face_position \in {TargetOf(calls')} :
                \A drawn \in {UpdateIn(EyeOrder, eyes, mode, now', face_position,
                                        CtlRandom, sched)} :
                   /\ eyes' \in drawn
                   /\ \A order \in EyeOrders :
                         UpdateIn(order, eyes, mode, now', face_position, CtlRandom, sched)
                            = drawn ]_vars

\* a tick of wandering mode has found the three eyes closing and part of the
\* way through a saccade, and has moved each of them on
C30_Witness ==
    /\ mode = EYE_MODES.WANDERING
    /\ Len(calls) = 6
    /\ MotionCallsOn(calls, "right") = << <<"update_autonomous", "right", now>> >>
    /\ \A n \in EyeNames :
          /\ eyes[n].in_motion
          /\ eyes[n].eye_x # eyes[n].old_x
          /\ eyes[n].eye_x # eyes[n].new_x
          /\ eyes[n].blink_state = ENBLINK
          /\ eyes[n].blink_factor # Zero

----------------------------------------------------------------------------
(* Properties of the eyelids under mode changes (Spec). *)

\* C35: under any sequence of ticks and set_mode calls, whenever an eye's
\* blink state is Open (NOBLINK) and the mode of the controller is not rest,
\* the blink_factor of that eye at the end of the tick is 0.0 (fully open).
C35_OpenEyeFullyOpen ==
    [][ (IsTick /\ mode' # EYE_MODES.REST) =>
          \A n \in EyeNames :
             eyes'[n].blink_state = NOBLINK => eyes'[n].blink_factor = Zero ]_vars

\* the eyelid of an eye: its blink state machine and the closure it leaves
LidPart(e) ==
    [ blink_state |-> e.blink_state, blink_start_time |-> e.blink_start_time,
      blink_duration |-> e.blink_duration, blink_factor |-> e.blink_factor ]

\* C36: at the end of every tick, under any sequence of ticks and set_mode
\* calls, the three eyes have the same blink state, blink start time, blink
\* duration and blink_factor: the eyes blink in lock-step.
C36_LockStep ==
    \A n \in EyeNames : LidPart(eyes[n]) = LidPart(eyes["left"])

\* a tick outside rest mode has found the three eyes part of the way through
\* the opening phase of a blink of the longest duration they started together
C36_Witness ==
    /\ calls # <<>>
    /\ ~RestTick(calls)
    /\ \A n \in EyeNames :
          /\ eyes[n].blink_state = DEBLINK
          /\ eyes[n].blink_duration = 2 * BLINK_MAX_DURATION
          /\ eyes[n].blink_start_time < now
          /\ FLt(Zero, eyes[n].blink_factor)
          /\ FLt(eyes[n].blink_factor, One)
          /\ eyes[n].blink_factor # <<11, 36>>

----------------------------------------------------------------------------
(* Properties of the range and of the pauses of a wandering eye (SpecGaze,  *)
(* SpecMotion).                                                            *)

\* the point (x, y) lies in the disk of radius 0.75 * DISPLAY_SIZE centred at
\* the origin
\* the origin: x^2 + y^2 <= r^2, the three numbers brought to the common
\* denominator l of x and y, and the squares taken only of numbers that are
\* not above r * l
InSaccadeDisk(x, y) ==
    LET l == (x[2] * y[2]) \div GCD(x[2], y[2])
        r == ((DISPLAY_SIZE * 75) \div 100) * l
        a == Abs(x[1]) * (l \div x[2])
        b == Abs(y[1]) * (l \div y[2])
    IN  a <= r /\ b <= r /\ a * a + b * b <= r * r

\* C38 as claimed: for an eye driven only by update_autonomous, after any
\* number of major saccades and microsaccades, its position at every tick
\* lies within the disk of radius 0.75 * DISPLAY_SIZE centred at the origin.
C38_Original ==
    InSaccadeDisk(eye.eye_x, eye.eye_y)

\* C38 as amended: for an eye driven only by update_autonomous, a tick that
\* starts no microsaccade keeps the eye in the disk of radius
\* 0.75 * DISPLAY_SIZE centred at the origin: if the start and the end point
\* of its last move lie in the disk before the tick, then after the tick they
\* still do and so does its position.  Only the start of a microsaccade can
\* put the end point of a move outside the disk.
C38_InDiskUntilMicrosaccade ==
    [][ ( /\ EyeWander
          /\ InSaccadeDisk(eye.old_x, eye.old_y)
          /\ InSaccadeDisk(eye.new_x, eye.new_y)
          /\ ~( /\ ~eye.in_motion /\ eye'.in_motion
                /\ ~(now' - eye.last_saccade_stop > eye.saccade_interval) ) ) =>
          /\ InSaccadeDisk(eye'.old_x, eye'.old_y)
          /\ InSaccadeDisk(eye'.new_x, eye'.new_y)
          /\ InSaccadeDisk(eye'.eye_x, eye'.eye_y) ]_vars

\* a tick has found the eye half way through a major saccade that leads from
\* the origin to (108, 144), a point of the rim of the disk
C38_Witness ==
    /\ Len(op) = 2
    /\ op[1] = "update_autonomous"
    /\ eye.in_motion
    /\ eye.saccade_interval = 0
    /\ eye.move_start_time < now
    /\ <<eye.old_x, eye.old_y>> = <<Zero, Zero>>
    /\ Norm2(eye.new_x, eye.new_y) = FInt(180 * 180)
    /\ <<eye.eye_x, eye.eye_y>> = <<FInt(54), FInt(72)>>
    /\ InSaccadeDisk(eye.eye_x, eye.eye_y)

\* C39: an eye driven by update_autonomous never starts a new move while a
\* move is in progress, and after a move completes on a tick at time t with
\* drawn hold duration h (h >= 35000 microseconds) the next move, major or
\* micro, starts only on a tick with now - t > h; during the hold the
\* position stays equal to old.
C39_HoldBetweenMoves ==
    [][ EyeUpdateAutonomous =>
          /\ (eye.in_motion /\ eye'.in_motion) =>
                /\ eye'.move_start_time = eye.move_start_time
                /\ eye'.move_duration = eye.move_duration
                /\ eye'.old_x = eye.old_x /\ eye'.old_y = eye.old_y
                /\ eye'.new_x = eye.new_x /\ eye'.new_y = eye.new_y
          /\ (eye.in_motion /\ ~eye'.in_motion) =>
                /\ eye'.move_start_time = now'
                /\ eye'.move_duration >= 35000
                /\ eye'.new_x = eye.new_x /\ eye'.new_y = eye.new_y
          /\ (~eye.in_motion /\ eye.move_duration >= 35000) =>
                /\ eye'.in_motion => now' - eye.move_start_time > eye.move_duration
                /\ ~eye'.in_motion =>
                      /\ eye'.eye_x = eye.old_x /\ eye'.eye_y = eye.old_y
                      /\ eye'.old_x = eye.old_x /\ eye'.old_y = eye.old_y
                      /\ eye'.move_start_time = eye.move_start_time
                      /\ eye'.move_duration = eye.move_duration ]_vars

\* a tick has fallen into the hold after a microsaccade and has left the eye
\* where the microsaccade ended
C39_Witness ==
    /\ Len(op) = 2
    /\ op[1] = "update_autonomous"
    /\ ~eye.in_motion
    /\ eye.move_duration = 1000000
    /\ eye.move_start_time < now
    /\ eye.saccade_interval = GAZE_MAX
    /\ eye.last_saccade_stop < eye.move_start_time
    /\ eye.eye_x = eye.old_x /\ eye.eye_y = eye.old_y
    /\ <<eye.old_x, eye.old_y>> # <<Zero, Zero>>

----------------------------------------------------------------------------
(* Properties of the blink scheduler under a bounded pace (SpecPace). *)

\* C37: provided consecutive ticks are never more than BLINK_INTERVAL_MIN / 2
\* apart, every time the blink scheduler fires all eyes are in the Open
\* state, so every scheduled blink starts on every eye and no start_blink
\* call of the scheduler is ignored.  (The scheduler has fired on a step that
\* moves next_blink_time away from the clock.)
C37_BlinkNeverIgnored ==
    [][ next_blink_time' > next_blink_time =>
          /\ Len(StartsOf(calls')) = 3
          /\ \A n \in EyeNames :
                /\ eyes[n].blink_state = NOBLINK
                /\ eyes'[n].blink_state = ENBLINK
                /\ eyes'[n].blink_start_time = now'
                /\ eyes'[n].blink_duration = StartsOf(calls')[1][4] ]_vars

\* the scheduler has fired on a tick that found the eyes in the middle of a
\* move, it has drawn the shortest duration, and every eye has started to
\* close
C37_Witness ==
    /\ Len(StartsOf(calls)) = 3
    /\ next_blink_time = now + 3 * BLINK_MIN_DURATION + BLINK_INTERVAL_MIN
    /\ last_blink_time = now
    /\ \A n \in EyeNames :
          /\ eyes[n].blink_state = ENBLINK
          /\ eyes[n].blink_start_time = now
          /\ eyes[n].blink_duration = BLINK_MIN_DURATION
          /\ eyes[n].blink_factor = Zero
          /\ eyes[n].in_motion

----------------------------------------------------------------------------
(* Properties of the memory of the face tracker (SpecFace). *)

\* C34: after the last frame in which a face was found, detect_faces keeps
\* returning the last face position and keeps face_detected true for the
\* next 29 frames without a face in a row; on the 30th such frame and on
\* every later one it returns None with face_detected false and confidence
\* 0; a frame with a face resets the count of frames without a face to 0.
\* (A capture that raises delivers no frame.)
C34_FaceMemory ==
    [][ (Len(op') = 3 /\ op'[1] = "detect_faces" /\ ~op'[2].raised) =>
          IF op'[2].faces # <<>>
          THEN /\ tracker'.frames_without_face = 0
               /\ tracker'.face_detected
               /\ op'[3] = tracker'.last_face_position
               /\ op'[3] # NoTarget
          ELSE /\ tracker'.frames_without_face = tracker.frames_without_face + 1
               /\ tracker'.last_face_position = tracker.last_face_position
               /\ (tracker'.frames_without_face <= 29 /\ tracker.last_face_position # NoTarget) =>
                     /\ op'[3] = tracker.last_face_position
                     /\ tracker'.face_detected
                     /\ tracker'.detection_confidence = tracker.detection_confidence
               /\ tracker'.frames_without_face >= 30 =>
                     /\ op'[3] = NoTarget
                     /\ ~tracker'.face_detected
                     /\ tracker'.detection_confidence = Zero ]_vars

\* the 30th frame in a row without a face after a face had been found: None
\* is returned and the face counts as lost
C34_Witness ==
    /\ Len(op) = 3
    /\ op[1] = "detect_faces"
    /\ ~op[2].raised /\ op[2].faces = <<>>
    /\ tracker.frames_without_face = 30
    /\ tracker.last_face_position # NoTarget
    /\ op[3] = NoTarget
    /\ ~tracker.face_detected

----------------------------------------------------------------------------
(* Properties of the playback thread and stop_all (SpecAudio). *)

\* C40: once stop_all() has returned, is_currently_playing() returns False
\* at every later moment, whatever the playback thread does.
C40_SilentAfterStopAll ==
    audio.stop_all_returned => ~is_currently_playing(audio)

----------------------------------------------------------------------------
(* Properties of the main loop run for ever (SpecWake). *)

\* the camera delivered a frame with a face at the last update
FaceInView ==
    /\ Len(op) = 4
    /\ op[1] = "update"
    /\ ~op[3].raised
    /\ op[3].faces # <<>>

\* C31: once the skull is in rest mode, a face in front of the camera wakes
\* it up: as long as the face stays in view, after some updates the mode of
\* the SkullController and of the EyeController is DEFAULT_MODE again.
C31_FaceWakesFromRest ==
    (skull.current_mode = EYE_MODES.REST /\ FaceInView)
        ~> ((skull.current_mode = DEFAULT_MODE /\ mode = DEFAULT_MODE) \/ ~FaceInView)

----------------------------------------------------------------------------
(* Properties of the main loop (SpecSkull, SpecWake).  At an update step op' *)
(* holds the clock advance, the capture and the sounds the update asked for. *)

\* the inactivity check is due at the update that is being made: the time
\* since the last check has reached LAST_ACTIVITY_CHECK_INTERVAL
CheckDue ==
    now - Older(skull.last_mode_check, op'[2], now, LAST_ACTIVITY_CHECK_INTERVAL)
        >= LAST_ACTIVITY_CHECK_INTERVAL

\* the time since the last update at which a face was detected (since the
\* construction if there was none); values above INACTIVITY_TIMEOUT are kept
\* as INACTIVITY_TIMEOUT + 1
SinceFace == now - skull.last_activity_time

\* C32: when no face has been detected for more than INACTIVITY_TIMEOUT and
\* the skull is not in rest mode, the next inactivity check (at most one per
\* LAST_ACTIVITY_CHECK_INTERVAL) sets current_mode of the SkullController and
\* mode of the EyeController to rest; and no update switches to rest while
\* the time since the last detected face is at most INACTIVITY_TIMEOUT.
C32_RestAfterTimeout ==
    [][ /\ (skull.current_mode # EYE_MODES.REST /\ CheckDue
               /\ SinceFace' > INACTIVITY_TIMEOUT)
            => (skull'.current_mode = EYE_MODES.REST /\ mode' = EYE_MODES.REST)
        /\ ((skull.current_mode # EYE_MODES.REST /\ skull'.current_mode = EYE_MODES.REST)
              \/ (mode # EYE_MODES.REST /\ mode' = EYE_MODES.REST))
            => SinceFace' > INACTIVITY_TIMEOUT ]_vars

\* The inactivity check of the last update has found the timeout exceeded:
\* both modes are rest and the LEDs are dimmed to 0.2.
C32_Witness ==
    /\ skull.current_mode = EYE_MODES.REST
    /\ mode = EYE_MODES.REST
    /\ skull.last_mode_check = now
    /\ SinceFace > INACTIVITY_TIMEOUT
    /\ leds.brightness = <<1, 5>>
    /\ ~tracker.face_detected

\* the number of play_detection_sound calls among the sounds asked for
DetectionSounds(sounds) ==
    Cardinality({i \in DOMAIN sounds : sounds[i] = "play_detection_sound"})

\* C33: an update calls play_detection_sound exactly once when the tracker
\* reports a face and face_was_detected was false, and not at all when
\* face_was_detected was already true or when no face is reported.
C33_DetectionSoundOnRisingEdge ==
    [][ DetectionSounds(op'[4]) =
          IF tracker'.face_detected /\ ~skull.face_was_detected THEN 1 ELSE 0 ]_vars

\* The last update has met a rising edge: its frame shows a face, it has
\* asked for the detection sound once, before the ambient sound that is due,
\* and it has set the LEDs pulsing faster.
C33_Witness ==
    /\ FaceInView
    /\ op[4] = <<"play_detection_sound", "play_random_ambient">>
    /\ tracker.face_detected
    /\ skull.face_was_detected
    /\ skull.last_activity_time = now
    /\ leds.current_pattern = LEDPattern.PULSE
    /\ leds.pattern_speed = <<3, 2>>

====
